---- MODULE Spec2Model ----
(***************************************************************************)
(* Model of the rust-libretro dispatch layer: the host-facing entry points *)
(* of src/rust-libretro/src/lib.rs, the scoped contexts of                 *)
(* src/rust-libretro/src/contexts/mod.rs and the marshaling primitives of  *)
(* src/rust-libretro/src/environment.rs.                                   *)
(*                                                                         *)
(* The build modelled has the `log` and `unstable-env-commands` features   *)
(* enabled (the bitmask, VFS and logging paths only exist there).          *)
(*                                                                         *)
(* An Option<T> is a set with at most one element: {} is None, {v} is      *)
(* Some(v); Option::take leaves {}, Option::replace(v) leaves {v}.         *)
(*                                                                         *)
(* The host calls an entry point, the dispatcher runs its prelude and      *)
(* forwards to a handler of the core (`phase` names the handler that is    *)
(* running); inside the handler the core may call the operations its       *)
(* context offers; the handler returns and so does the entry point.        *)
(***************************************************************************)
EXTENDS Integers, Sequences, FiniteSets, TLC

VARIABLES
    environment_callback,   \* CoreWrapper.environment_callback : Option
    supports_bitmasks,      \* CoreWrapper.supports_bitmasks
    can_dupe,               \* CoreWrapper.can_dupe
    had_frame,              \* CoreWrapper.had_frame
    last_width,             \* CoreWrapper.last_width
    last_height,            \* CoreWrapper.last_height
    last_pitch,             \* CoreWrapper.last_pitch
    frame_delta,            \* CoreWrapper.frame_delta : Option<i64>
    input_poll_callback,    \* is_some() of the registered callback
    input_state_callback,   \* is_some() of the registered callback
    video_refresh_callback, \* is_some() of the registered callback
    interfaces,             \* the interface registry behind the RwLock
    phase,                  \* "host" or the core handler that is running
    cont,                   \* entry point on_options_changed returns into
    entry,                  \* the entry point of the current / last call
    callLog,                \* what the current / last call did, in order
    run_delta,              \* the delta_us argument of the last on_run
    handlerResult,          \* Result of the last fallible handler
    ret,                    \* Option: the value the last call returned
    lastOp,                 \* the last operation of the running handler
    prevOp,                 \* the registry operation before lastOp, if any
    negCount,               \* interfaces the host has been asked for
    deltaHist,              \* history of timing reports and on_run deltas
    latest,                 \* per interface: id of the latest negotiation's
                            \* interface, 0 if it yielded none
    bitmask_accepted,       \* the host accepted GET_INPUT_BITMASKS once
    hw_torn_down,           \* context destroyed since the last enable
    audio_thread,           \* the host's audio thread: "off" until the
                            \* audio callback is enabled, then "idle" or
                            \* inside "on_write_audio"
    load_args,              \* Option: the arguments of the current call:
                            \* game_type and num_info of
                            \* retro_load_game_special, and whether its
                            \* pointer argument is null
    statics,                \* lib.rs: RETRO_INSTANCE : Option<CoreWrapper>
                            \* and the SYS_INFO of retro_get_system_info
    core,                   \* the fields of the registered core that its
                            \* handlers read and write
    session                 \* what the process has seen: a panic, the last
                            \* registration, the av-infos and sizes the
                            \* host was handed

vars == <<environment_callback, supports_bitmasks, can_dupe, had_frame,
          last_width, last_height, last_pitch, frame_delta,
          input_poll_callback, input_state_callback, video_refresh_callback,
          interfaces, phase, cont, entry, callLog, run_delta, handlerResult,
          ret, lastOp, prevOp, negCount, deltaHist, latest,
          bitmask_accepted, hw_torn_down, audio_thread, load_args, statics,
          core, session>>

wrapperVars == <<environment_callback, supports_bitmasks, can_dupe,
                 frame_delta, input_poll_callback, input_state_callback,
                 video_refresh_callback>>
frameVars == <<had_frame, last_width, last_height, last_pitch>>
callVars == <<phase, cont, entry, callLog, run_delta, handlerResult, ret>>
opVars == <<lastOp, prevOp>>
ghostVars == <<negCount, deltaHist, latest, bitmask_accepted, hw_torn_down>>
processVars == <<statics, core, session>>

----------------------------------------------------------------------------
(* Bounds of the model *)

MaxHist == 4           \* deltaHist keeps the last MaxHist reports and runs
MaxDim == 2            \* frame widths, heights and pitches are 1..MaxDim
MaxUsec == 2           \* reported frame times are 1..MaxUsec
MaxNegotiations == 3   \* get-interface calls answered by the host

Usecs == 1..MaxUsec
Dims == 1..MaxDim

\* lastOp: the operation, its Result, the host functions it invoked (in
\* order), whether it wrote an error message, the value it returned, the
\* host-side input it ran against, the registry lock it took, the entry its
\* Option::take took out of the registry and the counters it cleared.
NoOp == [op |-> "none", result |-> "none", calls |-> <<>>,
         logged |-> FALSE, value |-> 0, input |-> {}, lock |-> "none",
         taken |-> {}, cleared |-> {}]

----------------------------------------------------------------------------
(* Marshaling primitives, environment.rs *)

\* A host's answer to one environment call: its boolean return and the data
\* it left behind the pointer.
HostBool == [ok : BOOLEAN, data : BOOLEAN]

\* A get_mut that does not look at the callback's return value.
get_mut_ignoring_return(callback, hostOk) ==
    IF callback = {} THEN "NullPointer" ELSE "Ok"

\* get_mut: NullPointer if the callback is absent, else Ok or Failure by the
\* callback's return value.
get_mut(callback, hostOk) ==
    IF callback = {} THEN "NullPointer"
    ELSE IF hostOk THEN "Ok" ELSE "Failure"

\* A set_ptr that calls through the Option without looking at it.
set_ptr_unwrapped(callback, hostOk) ==
    IF hostOk THEN "Ok" ELSE "Failure"

\* set_ptr: the same protocol without data read back.
set_ptr(callback, hostOk) ==
    IF callback = {} THEN "NullPointer"
    ELSE IF hostOk THEN "Ok" ELSE "Failure"

\* get and get_unchecked are get_mut on a default or zeroed value; set is
\* set_ptr on the address of its argument.
get(callback, hostOk) == get_mut(callback, hostOk)
get_unchecked(callback, hostOk) == get_mut(callback, hostOk)
set(callback, hostOk) == set_ptr(callback, hostOk)

\* The environment callback is invoked only if it is present.
EnvCalls(callback, cmd) == IF callback = {} THEN <<>> ELSE <<cmd>>

\* Option::unwrap_or.
unwrap_or(option, default) ==
    IF option = {} THEN default ELSE CHOOSE v \in option : TRUE

\* Default::default() and zeroed memory for the data the get calls pass.
Default == 0

\* A host's treatment of the data behind the pointer: its return value and
\* what it wrote there, {} if it left the data alone.
MaxData == 2           \* data values are 1..MaxData
HostData == [ok : BOOLEAN,
             written : {{}} \cup {{d} : d \in 1..MaxData}]

\* A get_mut that hands back the data as it was passed in.
get_mut_value_unread(callback, data, host) ==
    IF get_mut(callback, host.ok) = "Ok" THEN {data} ELSE {}

\* The Ok value of get_mut: the data after the callback has had it.
get_mut_value(callback, data, host) ==
    IF get_mut(callback, host.ok) = "Ok"
    THEN {unwrap_or(host.written, data)} ELSE {}

----------------------------------------------------------------------------
(* log_result!, lib.rs *)

\* First two forms: explicit Ok(..) => {..}, Err(err) => {..} arms.
log_result_arms(isOk, okVal, errVal) == IF isOk THEN okVal ELSE errVal

\* Last two forms: { ok block }, { err block }.  The expansion hands the ok
\* block to both arms.
log_result_blocks(isOk, okBlock, errBlock) ==
    log_result_arms(isOk, okBlock, okBlock)

\* Every form logs in its Err arm.
LogIfErr(isOk, what) == IF isOk THEN <<>> ELSE <<what>>

----------------------------------------------------------------------------
(* State after set_core(): CoreWrapper::new *)

EmptyInterfaces ==
    [rumble_interface |-> {},
     perf_interface |-> {},
     perf_counters |-> {},
     hw_render_callback |-> {},
     vfs_interface_info |-> [supported_version |-> 0, interface |-> {}],
     camera_interface |-> {},
     location_interface |-> {}]

\* The cores of the repository.  statics.retro_core is the one the build's
\* retro_core! macro hands to set_core in __retro_init_core.
Cores == {"ExampleCore", "TestCore"}

\* The fields of the core behind the av-info and the save state size: the
\* test core's aspect and last_aspect, and the size its get_serialize_size
\* computed last.
NewCore == [aspect |-> "4:3", last_aspect |-> "0.0", serialize_size |-> 0]

\* Nothing has panicked, nothing was registered by hand, the host holds no
\* av-info, no geometry update and no save state size; the main thread is
\* inside no host function and waits for no lock; the host's video refresh
\* callback has received no frame from a draw call.
NewSession ==
    [panic |-> {}, registration |-> {}, av_info |-> {},
     previous_av_info |-> {}, geometry |-> {}, sizes |-> <<>>,
     stack |-> <<>>, waiting |-> {}, delivered |-> {}]

InitWrapper ==
    /\ environment_callback = {}
    /\ supports_bitmasks = FALSE
    /\ can_dupe = FALSE
    /\ had_frame = FALSE
    /\ last_width = 0
    /\ last_height = 0
    /\ last_pitch = 0
    /\ frame_delta = {}
    /\ input_poll_callback = FALSE
    /\ input_state_callback = FALSE
    /\ video_refresh_callback = FALSE
    /\ interfaces = EmptyInterfaces
    /\ phase = "host"
    /\ cont = "none"
    /\ entry = "none"
    /\ callLog = <<>>
    /\ run_delta = {}
    /\ handlerResult = "none"
    /\ ret = {}
    /\ lastOp = NoOp
    /\ prevOp = "none"
    /\ negCount = 0
    /\ deltaHist = <<>>
    /\ latest = [rumble |-> 0, perf |-> 0, hw_render |-> 0]
    /\ bitmask_accepted = FALSE
    /\ hw_torn_down = FALSE
    /\ audio_thread = "off"
    /\ load_args = {}
    /\ core = NewCore
    /\ session = NewSession

\* The wrapper once retro_get_system_info has registered the core, which a
\* host does before it makes any other call.
Init ==
    /\ InitWrapper
    /\ statics = [retro_core |-> "TestCore", RETRO_INSTANCE |-> {"TestCore"},
                  SYS_INFO |-> {"TestCore"}, FALLBACK_FRAMEBUFFER |-> 0]

\* The process of either build before the first call: both statics are
\* None.
InitUnregistered ==
    /\ InitWrapper
    /\ \E c \in Cores :
           statics = [retro_core |-> c, RETRO_INSTANCE |-> {},
                      SYS_INFO |-> {}, FALLBACK_FRAMEBUFFER |-> 0]

\* deltaHist is a window on the history of timing reports and on_run calls.
Record(hist, event) ==
    LET h == Append(hist, event) IN
    IF Len(h) > MaxHist THEN Tail(h) ELSE h

\* A new call from the host: no handler result yet.
\* A null check that lets every pointer through.
is_null_never(ptrNull) == FALSE

\* data.is_null(), info.is_null(), code.is_null()
is_null(ptrNull) == ptrNull

\* An entry point is called with the arguments args.
EnterWith(name, args) ==
    /\ phase = "host"
    /\ statics.RETRO_INSTANCE # {}
    /\ session.panic = {}
    /\ entry' = name
    /\ handlerResult' = "none"
    /\ load_args' = args

EnterCall(name) == EnterWith(name, {})

\* A new call from the host that has not returned a value (yet).
Enter(name) ==
    /\ EnterCall(name)
    /\ ret' = {}

----------------------------------------------------------------------------
(* Callback setters, lib.rs callback! *)

retro_set_video_refresh(arg) ==
    /\ Enter("retro_set_video_refresh")
    /\ video_refresh_callback' = arg
    /\ callLog' = <<>>
    /\ UNCHANGED <<environment_callback, supports_bitmasks, can_dupe,
                   frame_delta, input_poll_callback, input_state_callback,
                   frameVars, interfaces, phase, cont, run_delta, opVars,
                   ghostVars, audio_thread, processVars>>

retro_set_input_poll(arg) ==
    /\ Enter("retro_set_input_poll")
    /\ input_poll_callback' = arg
    /\ callLog' = <<>>
    /\ UNCHANGED <<environment_callback, supports_bitmasks, can_dupe,
                   frame_delta, video_refresh_callback, input_state_callback,
                   frameVars, interfaces, phase, cont, run_delta, opVars,
                   ghostVars, audio_thread, processVars>>

retro_set_input_state(arg) ==
    /\ Enter("retro_set_input_state")
    /\ input_state_callback' = arg
    /\ callLog' = <<>>
    /\ UNCHANGED <<environment_callback, supports_bitmasks, can_dupe,
                   frame_delta, video_refresh_callback, input_poll_callback,
                   frameVars, interfaces, phase, cont, run_delta, opVars,
                   ghostVars, audio_thread, processVars>>

----------------------------------------------------------------------------
(* Core options, environment.rs and the CoreOptions derive macro *)

MaxOptionsVersion == 3 \* hosts report options versions 0..MaxOptionsVersion

\* hostVersion: the version the host writes for GET_CORE_OPTIONS_VERSION as
\* an Option, {} if the host returns false.
OptionsVersions == {{}} \cup {{n} : n \in 0..MaxOptionsVersion}

get_core_options_version(callback, hostVersion) ==
    unwrap_or(IF get(callback, hostVersion # {}) = "Ok"
              THEN hostVersion ELSE {}, 0)

VersionQuery(callback) == EnvCalls(callback, "env:GET_CORE_OPTIONS_VERSION")

supports_set_core_options(callback, hostVersion) ==
    get_core_options_version(callback, hostVersion) >= 1

supports_set_core_options_v2(callback, hostVersion) ==
    get_core_options_version(callback, hostVersion) >= 2

\* Each of the three senders yields its Result and the environment calls
\* it made.  hostOk: the host's return value for the SET_ command.
set_variables(callback, hostOk) ==
    [result |-> set_ptr(callback, hostOk),
     calls |-> EnvCalls(callback, "env:SET_VARIABLES")]

set_core_options(callback, hostVersion, hostOk) ==
    IF ~supports_set_core_options(callback, hostVersion)
    THEN [result |-> "Unsupported",
          calls |-> VersionQuery(callback) \o VersionQuery(callback)]
    ELSE [result |-> set_ptr(callback, hostOk),
          calls |-> VersionQuery(callback)
                    \o EnvCalls(callback, "env:SET_CORE_OPTIONS")]

set_core_options_v2(callback, hostVersion, hostOk) ==
    IF ~supports_set_core_options_v2(callback, hostVersion)
    THEN [result |-> "Unsupported",
          calls |-> VersionQuery(callback) \o VersionQuery(callback)]
    ELSE LET r == set_ptr(callback, hostOk) IN
         [result |-> IF r = "Failure" THEN "OkFalse" ELSE r,
          calls |-> VersionQuery(callback)
                    \o EnvCalls(callback, "env:SET_CORE_OPTIONS_V2")]

\* A derived set_core_options that tries the v1 arm first.
CoreOptions_set_core_options_v1_first(callback, hostVersion, hostOk) ==
    LET n == get_core_options_version(callback, hostVersion)
        r == IF n >= 1 THEN set_core_options(callback, hostVersion, hostOk)
             ELSE IF n >= 2
                  THEN set_core_options_v2(callback, hostVersion, hostOk)
                  ELSE set_variables(callback, hostOk)
    IN  [result |-> r.result, calls |-> VersionQuery(callback) \o r.calls]

\* CoreOptions::set_core_options as the derive macro writes it.
CoreOptions_set_core_options(callback, hostVersion, hostOk) ==
    LET n == get_core_options_version(callback, hostVersion)
        r == IF n >= 2
             THEN set_core_options_v2(callback, hostVersion, hostOk)
             ELSE IF n >= 1
                  THEN set_core_options(callback, hostVersion, hostOk)
                  ELSE set_variables(callback, hostOk)
    IN  [result |-> r.result, calls |-> VersionQuery(callback) \o r.calls]

----------------------------------------------------------------------------
(* retro_set_environment, lib.rs *)

\* A retro_set_environment that stores the callback before it negotiates.
set_environment_steps_register_first(negotiation, options) ==
    <<"register_callback">> \o negotiation \o options
    \o <<"on_set_environment">>

\* The steps of a retro_set_environment that was handed a callback:
\* negotiation with the handed callback, then the store into the wrapper,
\* then the options routine and the hook.
set_environment_steps(negotiation, options) ==
    negotiation \o <<"register_callback">> \o options
    \o <<"on_set_environment">>

\* environment: the host passes Some(callback) or None.
\* hostAccepts: the callback's answer to GET_INPUT_BITMASKS.
\* hostVersion, optionsOk: its answers to the options version query and to
\* the SET_ command that carries the options.
retro_set_environment(environment, hostAccepts, hostVersion, optionsOk) ==
    LET callback == IF environment THEN {"env"} ELSE {}
        o == CoreOptions_set_core_options(callback, hostVersion, optionsOk)
        options == <<"set_core_options">> \o o.calls
                   \o LogIfErr(o.result \in {"Ok", "OkFalse"}, "log_warn")
    IN
    /\ Enter("retro_set_environment")
    /\ IF environment
       THEN LET r == set_ptr({"env"}, hostAccepts) IN
            /\ supports_bitmasks' =
                   (supports_bitmasks
                    \/ log_result_blocks(r = "Ok", TRUE, FALSE))
            /\ bitmask_accepted' = (bitmask_accepted \/ hostAccepts)
            /\ callLog' = set_environment_steps(
                              <<"env:GET_INPUT_BITMASKS">>
                              \o LogIfErr(r = "Ok", "log_warn"), options)
       ELSE /\ callLog' = <<"withdraw_callback">> \o options
                          \o <<"on_set_environment">>
            /\ UNCHANGED <<supports_bitmasks, bitmask_accepted>>
    /\ environment_callback' = callback
    /\ lastOp' = [NoOp EXCEPT !.op = "set_core_options",
                              !.result = o.result, !.calls = o.calls,
                              !.input = IF environment THEN hostVersion
                                        ELSE {}]
    /\ phase' = "on_set_environment"
    /\ UNCHANGED <<can_dupe, frame_delta, input_poll_callback,
                   input_state_callback, video_refresh_callback, frameVars,
                   interfaces, cont, run_delta, prevOp, negCount, deltaHist,
                   latest, hw_torn_down, audio_thread, processVars>>

----------------------------------------------------------------------------
(* retro_init, lib.rs *)

\* host: the callback's answer to GET_CAN_DUPE.
retro_init(host) ==
    LET r == get_mut(environment_callback, host.ok) IN
    /\ Enter("retro_init")
    /\ can_dupe' = log_result_arms(r = "Ok", host.data, FALSE)
    /\ callLog' = EnvCalls(environment_callback, "env:GET_CAN_DUPE")
                  \o LogIfErr(r = "Ok", "log_warn") \o <<"on_init">>
    /\ phase' = "on_init"
    /\ UNCHANGED <<environment_callback, supports_bitmasks, frame_delta,
                   input_poll_callback, input_state_callback,
                   video_refresh_callback, frameVars, interfaces, cont,
                   run_delta, opVars, ghostVars, audio_thread, processVars>>

----------------------------------------------------------------------------
(* retro_frame_time_callback_fn, lib.rs *)

retro_frame_time_callback_fn(usec) ==
    /\ Enter("retro_frame_time_callback_fn")
    /\ frame_delta' = {usec}
    /\ deltaHist' = Record(deltaHist, [kind |-> "report", val |-> {usec}])
    /\ callLog' = <<>>
    /\ UNCHANGED <<environment_callback, supports_bitmasks, can_dupe,
                   input_poll_callback, input_state_callback,
                   video_refresh_callback, frameVars, interfaces, phase, cont,
                   run_delta, opVars, negCount, latest, bitmask_accepted,
                   hw_torn_down, audio_thread, processVars>>

----------------------------------------------------------------------------
(* retro_run, lib.rs *)

\* A retro_run that treats a failed query as "nothing changed".
variable_update_skips_on_failure(isOk, updated) ==
    log_result_arms(isOk, updated, FALSE)

\* Whether retro_run delivers on_options_changed, given the result of
\* environment::get_variable_update.
variable_update_delivers(isOk, updated) ==
    log_result_arms(isOk, updated, TRUE)

\* Reading the slot without emptying it.
frame_delta_peek(slot) == slot

\* Option::take on wrapper.frame_delta: what is left in the slot.
frame_delta_take(slot) == {}

\* A retro_run that calls the poll callback without looking at it.
poll_input_unchecked(callback) == <<"input_poll">>

\* if let Some(callback) = wrapper.input_poll_callback { (callback)(); }
poll_input(callback) == IF callback THEN <<"input_poll">> ELSE <<>>

\* The frame delta the example core works with: delta_us.unwrap_or(16_666).
NOMINAL_FRAME_USEC == 16666
\* A dispatcher that fills in the nominal frame delta itself.
run_forward_with_nominal_delta(log) ==
    /\ callLog' = log
                  \o poll_input(input_poll_callback)
                  \o <<"on_run">>
    /\ run_delta' = {unwrap_or(frame_delta, NOMINAL_FRAME_USEC)}
    /\ frame_delta' = frame_delta_take(frame_delta)
    /\ deltaHist' = Record(deltaHist, [kind |-> "run", val |-> frame_delta])
    /\ phase' = "on_run"
    /\ cont' = "none"

\* The second half of retro_run: poll input, build the RunContext and
\* forward to on_run with the taken frame delta.
run_forward(log) ==
    /\ callLog' = log
                  \o poll_input(input_poll_callback)
                  \o <<"on_run">>
    /\ run_delta' = frame_delta
    /\ frame_delta' = frame_delta_take(frame_delta)
    /\ deltaHist' = Record(deltaHist, [kind |-> "run", val |-> frame_delta])
    /\ phase' = "on_run"
    /\ cont' = "none"

\* host: the callback's answer to GET_VARIABLE_UPDATE.
retro_run(host) ==
    LET r == get_mut(environment_callback, host.ok)
        q == IF r = "Ok"
             THEN (IF host.data THEN "query:true" ELSE "query:false")
             ELSE "query:failed"
        log == <<q>> \o LogIfErr(r = "Ok", "log_warn")
    IN
    /\ Enter("retro_run")
    /\ IF variable_update_delivers(r = "Ok", host.data)
       THEN /\ callLog' = log \o <<"on_options_changed">>
            /\ phase' = "on_options_changed"
            /\ cont' = "retro_run"
            /\ UNCHANGED <<frame_delta, run_delta, deltaHist>>
       ELSE run_forward(log)
    /\ UNCHANGED <<environment_callback, supports_bitmasks, can_dupe,
                   input_poll_callback, input_state_callback,
                   video_refresh_callback, frameVars, interfaces, opVars,
                   negCount, latest, bitmask_accepted, hw_torn_down,
                   audio_thread, processVars>>

----------------------------------------------------------------------------
(* retro_load_game and retro_load_game_special, lib.rs *)

\* A retro_load_game that forwards to on_load_game at once.
retro_load_game_direct ==
    /\ Enter("retro_load_game")
    /\ callLog' = <<"on_load_game">>
    /\ phase' = "on_load_game"
    /\ cont' = "none"
    /\ UNCHANGED <<wrapperVars, frameVars, interfaces, run_delta, opVars,
                   ghostVars, audio_thread, processVars>>

retro_load_game ==
    /\ Enter("retro_load_game")
    /\ callLog' = <<"on_options_changed">>
    /\ phase' = "on_options_changed"
    /\ cont' = "retro_load_game"
    /\ UNCHANGED <<wrapperVars, frameVars, interfaces, run_delta, opVars,
                   ghostVars, audio_thread, processVars>>

\* infoNull: the host passed a null info pointer.
retro_load_game_special(game_type, infoNull, num_info) ==
    /\ phase = "host"
    /\ statics.RETRO_INSTANCE # {}
    /\ session.panic = {}
    /\ entry' = "retro_load_game_special"
    /\ handlerResult' = "none"
    /\ load_args' = {[game_type |-> game_type, num_info |-> num_info,
                       null |-> infoNull]}
    /\ IF is_null(infoNull)
       THEN /\ callLog' = <<"log_warn">>
            /\ ret' = {FALSE}
            /\ UNCHANGED <<phase, cont>>
       ELSE /\ callLog' = <<"on_options_changed">>
            /\ ret' = {}
            /\ phase' = "on_options_changed"
            /\ cont' = "retro_load_game_special"
    /\ UNCHANGED <<wrapperVars, frameVars, interfaces, run_delta, opVars,
                   ghostVars, audio_thread, processVars>>

\* The subsystem the test core declares with set_subsystem_info.
SUBSYSTEM_ID == 512
SUBSYSTEM_NUM_ROMS == 2

\* The test core's on_load_game_special: it checks the game type and the
\* number of infos itself and then loads as on_load_game does.
test_core_on_load_game_special(game_type, num_info, loadOk) ==
    IF game_type # SUBSYSTEM_ID THEN "UnknownGameType"
    ELSE IF num_info # SUBSYSTEM_NUM_ROMS THEN "InvalidNumberOfInfos"
    ELSE IF loadOk THEN "Ok" ELSE "Err"

\* on_options_changed returns into the entry point that delivered it.
options_changed_returns ==
    /\ phase = "on_options_changed"
    /\ IF cont = "retro_run"
       THEN /\ run_forward(callLog)
            /\ UNCHANGED <<environment_callback, supports_bitmasks, can_dupe,
                           input_poll_callback, input_state_callback,
                           video_refresh_callback>>
       ELSE /\ callLog' = Append(callLog,
                   IF cont = "retro_load_game" THEN "on_load_game"
                   ELSE "on_load_game_special")
            /\ phase' = IF cont = "retro_load_game" THEN "on_load_game"
                        ELSE "on_load_game_special"
            /\ cont' = "none"
            /\ UNCHANGED <<wrapperVars, run_delta, deltaHist>>
    /\ lastOp' = NoOp
    /\ prevOp' = "none"
    /\ UNCHANGED <<frameVars, interfaces, entry, handlerResult, ret, negCount,
                   latest, bitmask_accepted, hw_torn_down, audio_thread,
                   processVars, load_args>>

\* A dispatcher that reports success whatever the handler returned.
load_game_returns_true(status) ==
    /\ phase \in {"on_load_game", "on_load_game_special"}
    /\ handlerResult' = status
    /\ ret' = {TRUE}
    /\ callLog' = callLog \o LogIfErr(status = "Ok", "log_error")
    /\ phase' = "host"
    /\ lastOp' = NoOp
    /\ prevOp' = "none"
    /\ UNCHANGED <<wrapperVars, frameVars, interfaces, cont, entry, run_delta,
                   ghostVars, audio_thread, processVars, load_args>>

\* status: the Result of on_load_game / on_load_game_special.
load_game_returns(status) ==
    /\ phase \in {"on_load_game", "on_load_game_special"}
    /\ handlerResult' = status
    /\ ret' = {status = "Ok"}
    /\ callLog' = callLog \o LogIfErr(status = "Ok", "log_error")
    /\ phase' = "host"
    /\ lastOp' = NoOp
    /\ prevOp' = "none"
    /\ UNCHANGED <<wrapperVars, frameVars, interfaces, cont, entry, run_delta,
                   ghostVars, audio_thread, processVars, load_args>>

----------------------------------------------------------------------------
(* retro_serialize and retro_unserialize, lib.rs *)

\* dataNull: the host passed a null buffer.
retro_serialize(dataNull) ==
    /\ EnterWith("retro_serialize", {[null |-> dataNull]})
    /\ IF is_null(dataNull)
       THEN /\ callLog' = <<"log_warn">>
            /\ ret' = {FALSE}
            /\ UNCHANGED phase
       ELSE /\ callLog' = <<"on_serialize">>
            /\ ret' = {}
            /\ phase' = "on_serialize"
    /\ UNCHANGED <<wrapperVars, frameVars, interfaces, cont, run_delta,
                   opVars, ghostVars, audio_thread, processVars>>

retro_unserialize(dataNull) ==
    /\ EnterWith("retro_unserialize", {[null |-> dataNull]})
    /\ IF is_null(dataNull)
       THEN /\ callLog' = <<"log_warn">>
            /\ ret' = {FALSE}
            /\ UNCHANGED phase
       ELSE /\ callLog' = <<"on_unserialize">>
            /\ ret' = {}
            /\ phase' = "on_unserialize"
    /\ UNCHANGED <<wrapperVars, frameVars, interfaces, cont, run_delta,
                   opVars, ghostVars, audio_thread, processVars>>

\* on_cheat_set has no result: the entry point returns nothing.
retro_cheat_set(codeNull) ==
    /\ EnterWith("retro_cheat_set", {[null |-> codeNull]})
    /\ ret' = {}
    /\ IF is_null(codeNull)
       THEN /\ callLog' = <<"log_warn">>
            /\ UNCHANGED phase
       ELSE /\ callLog' = <<"on_cheat_set">>
            /\ phase' = "on_cheat_set"
    /\ UNCHANGED <<wrapperVars, frameVars, interfaces, cont, run_delta,
                   opVars, ghostVars, audio_thread, processVars>>

\* The test core's on_load_game_special returns.
test_core_load_game_special_returns(loadOk) ==
    /\ phase = "on_load_game_special"
    /\ \E a \in load_args :
          load_game_returns(
              test_core_on_load_game_special(a.game_type, a.num_info, loadOk))

\* result: the Result of on_serialize / on_unserialize.
serialize_returns(result) ==
    /\ phase \in {"on_serialize", "on_unserialize"}
    /\ handlerResult' = result
    /\ ret' = {log_result_blocks(result = "Ok", TRUE, FALSE)}
    /\ callLog' = callLog \o LogIfErr(result = "Ok", "log_error")
    /\ phase' = "host"
    /\ lastOp' = NoOp
    /\ prevOp' = "none"
    /\ UNCHANGED <<wrapperVars, frameVars, interfaces, cont, entry, run_delta,
                   ghostVars, audio_thread, processVars, load_args>>

\* A handler without a result returns to the host.
handler_returns ==
    /\ phase \in {"on_set_environment", "on_init", "on_run",
                  "on_hw_context_destroyed", "on_cheat_set"}
    /\ phase' = "host"
    /\ lastOp' = NoOp
    /\ prevOp' = "none"
    /\ UNCHANGED <<wrapperVars, frameVars, interfaces, cont, entry, callLog,
                   run_delta, handlerResult, ret, ghostVars, audio_thread,
                   processVars, load_args>>

----------------------------------------------------------------------------
(* RunContext: frames, contexts/mod.rs *)

\* The operation the core calls inside on_run becomes lastOp.
RunOp(op) ==
    /\ phase = "on_run"
    /\ lastOp' = op
    /\ UNCHANGED <<wrapperVars, interfaces, callVars, prevOp, ghostVars,
                   audio_thread, processVars, load_args>>

VideoRefresh(data, width, height, pitch) ==
    [fn |-> "video_refresh", data |-> data, width |-> width,
     height |-> height, pitch |-> pitch]

\* The fields of the wrapper that dupe_frame reads.
Frame(had, width, height, pitch) ==
    [had_frame |-> had, last_width |-> width, last_height |-> height,
     last_pitch |-> pitch]

\* A draw call that records its frame whether or not a callback is set.
frame_recorded_always(callback, old, new) == new

\* The four assignments inside `if let Some(callback)` of a draw call.
frame_recorded(callback, old, new) == IF callback THEN new ELSE old

\* draw_frame, draw_framebuffer and draw_hardware_frame differ in the data
\* pointer they hand to the callback.  session.delivered is the frame the
\* host's callback received from the last draw call that reached it.
draw(op, data, width, height, pitch) ==
    LET frame == frame_recorded(video_refresh_callback,
                                Frame(had_frame, last_width, last_height,
                                      last_pitch),
                                Frame(TRUE, width, height, pitch))
        calls == IF video_refresh_callback
                 THEN <<VideoRefresh(data, width, height, pitch)>>
                 ELSE <<>>
    IN
    /\ phase = "on_run"
    /\ had_frame' = frame.had_frame
    /\ last_width' = frame.last_width
    /\ last_height' = frame.last_height
    /\ last_pitch' = frame.last_pitch
    /\ lastOp' = [NoOp EXCEPT !.op = op, !.result = "unit", !.calls = calls]
    /\ session' = [session EXCEPT
                       !.delivered = IF calls = <<>> THEN @
                                     ELSE {[width |-> calls[1].width,
                                            height |-> calls[1].height,
                                            pitch |-> calls[1].pitch]}]
    /\ UNCHANGED <<wrapperVars, interfaces, callVars, prevOp, ghostVars,
                   audio_thread, statics, core, load_args>>

draw_frame(width, height, pitch) ==
    draw("draw_frame", "ptr", width, height, pitch)

draw_framebuffer(width, height, pitch) ==
    draw("draw_framebuffer", "framebuffer.data", width, height, pitch)

draw_hardware_frame(width, height, pitch) ==
    draw("draw_hardware_frame", "RETRO_HW_FRAME_BUFFER_VALID", width, height,
         pitch)

\* A dupe_frame that only looks at the negotiated capability.
dupe_frame_refused_without_frame_check(canDupe, hadFrame) == ~canDupe

\* dupe_frame prints an error and returns early.
dupe_frame_refused(canDupe, hadFrame) == ~canDupe \/ ~hadFrame

dupe_frame ==
    /\ UNCHANGED frameVars
    /\ RunOp([NoOp EXCEPT !.op = "dupe_frame", !.result = "unit",
              !.logged = dupe_frame_refused(can_dupe, had_frame),
              !.calls = IF ~dupe_frame_refused(can_dupe, had_frame)
                           /\ video_refresh_callback
                        THEN <<VideoRefresh("null", last_width, last_height,
                                            last_pitch)>>
                        ELSE <<>>])

----------------------------------------------------------------------------
(* RunContext: joypad, contexts/mod.rs and types.rs *)

\* The buttons in the order get_joypad_state queries them.
JoypadButtons == <<"B", "Y", "SELECT", "START", "UP", "DOWN", "LEFT",
                   "RIGHT", "A", "X", "L", "R", "L2", "R2", "L3", "R3">>

\* RETRO_DEVICE_ID_JOYPAD_<button> of the ABI.
RETRO_DEVICE_ID_JOYPAD ==
    [b \in {JoypadButtons[i] : i \in 1..16} |->
        CHOOSE i \in 0..15 : JoypadButtons[i + 1] = b]

RETRO_DEVICE_ID_JOYPAD_MASK == 256

\* JoypadState::<button>, a u16 flag.
JoypadState ==
    [b \in {JoypadButtons[i] : i \in 1..16} |->
        CASE b = "B" -> 1 [] b = "Y" -> 2 [] b = "SELECT" -> 4
          [] b = "START" -> 8 [] b = "UP" -> 16 [] b = "DOWN" -> 32
          [] b = "LEFT" -> 64 [] b = "RIGHT" -> 128 [] b = "A" -> 256
          [] b = "X" -> 512 [] b = "L" -> 1024 [] b = "R" -> 2048
          [] b = "L2" -> 4096 [] b = "R2" -> 8192 [] b = "L3" -> 16384
          [] b = "R3" -> 32768]

\* The bits set in a u16 and back.
BitsOf(n) == {i \in 0..15 : (n \div (2^i)) % 2 = 1}

RECURSIVE FromBits(_)
FromBits(S) ==
    IF S = {} THEN 0
    ELSE LET i == CHOOSE x \in S : TRUE IN 2^i + FromBits(S \ {i})

\* mask |= flag
BitOr(a, b) == FromBits(BitsOf(a) \cup BitsOf(b))

\* `x as u16` of an i16, and the i16 with the bit pattern of a u16.
as_u16(x) == x % 65536
as_i16(u) == IF u >= 32768 THEN u - 65536 ELSE u

\* The host's input state callback for a joypad whose pressed buttons are
\* `pressed` (a set of button ids): non-zero for a pressed button.
input_state(pressed, id) == IF id \in pressed THEN 1 ELSE 0

\* The bitmask a host with bitmask support answers to the MASK id.
HostMask(pressed) == as_i16(FromBits(pressed))

\* The joypads the model runs against, and what the host's callback may
\* answer to the MASK id: the bitmask if it accepted the negotiation, and
\* else possibly 0, as for any id it does not know.
PressedSets == SUBSET {0, 8, 15}
HostMaskReplies(pressed) ==
    IF bitmask_accepted THEN {HostMask(pressed)} ELSE {0, HostMask(pressed)}

\* get_joypad_state folds the sixteen answers into a mask, one query each.
RECURSIVE joypad_fold(_, _)
joypad_fold(pressed, n) ==
    IF n = 0 THEN 0
    ELSE LET b == JoypadButtons[n]
             m == joypad_fold(pressed, n - 1)
         IN IF input_state(pressed, RETRO_DEVICE_ID_JOYPAD[b]) # 0
            THEN BitOr(m, JoypadState[b]) ELSE m

get_joypad_state_value(callback, pressed) ==
    IF callback
    THEN [value |-> joypad_fold(pressed, 16),
          calls |-> [i \in 1..16 |-> RETRO_DEVICE_ID_JOYPAD[JoypadButtons[i]]]]
    ELSE [value |-> 0, calls |-> <<>>]

\* from_bits_truncate keeps the bits of known flags: all sixteen are known.
from_bits_truncate(bits) == FromBits(BitsOf(bits) \cap (0..15))

get_joypad_bitmask_value(callback, supports, pressed, maskReply) ==
    IF callback
    THEN IF supports
         THEN [value |-> from_bits_truncate(as_u16(maskReply)),
               calls |-> <<RETRO_DEVICE_ID_JOYPAD_MASK>>]
         ELSE get_joypad_state_value(callback, pressed)
    ELSE [value |-> 0, calls |-> <<>>]

get_joypad_state(pressed) ==
    LET r == get_joypad_state_value(input_state_callback, pressed) IN
    /\ UNCHANGED frameVars
    /\ RunOp([NoOp EXCEPT !.op = "get_joypad_state", !.result = "value",
              !.calls = r.calls, !.value = r.value, !.input = pressed])

get_joypad_bitmask(pressed, maskReply) ==
    LET r == get_joypad_bitmask_value(input_state_callback, supports_bitmasks,
                                      pressed, maskReply) IN
    /\ UNCHANGED frameVars
    /\ RunOp([NoOp EXCEPT !.op = "get_joypad_bitmask", !.result = "value",
              !.calls = r.calls, !.value = r.value, !.input = pressed])

----------------------------------------------------------------------------
(* The interface registry, contexts/mod.rs and contexts/macros.rs *)

MaxVfsVersion == 3     \* the host answers VFS versions 0..MaxVfsVersion

\* The function pointers of the interface structs the model looks at.
RumbleFns == {"set_rumble_state"}
PerfFns == {"get_time_usec", "perf_log", "perf_register", "perf_start",
            "perf_stop"}
HwRenderFns == {"get_current_framebuffer", "get_proc_address"}

\* The VFS operations of GenericContext the model runs, the interface version
\* each passes to get_vfs_function! (none for the form without a version) and
\* the ones that convert a path into a CString before calling the host.
VfsDirOps == {"vfs_stat", "vfs_mkdir", "vfs_opendir", "vfs_readdir",
              "vfs_dirent_get_name", "vfs_dirent_is_dir", "vfs_closedir"}
VfsOps == VfsDirOps \cup {"vfs_truncate", "vfs_remove"}
VfsRequiredVersion(op) ==
    IF op \in VfsDirOps THEN {3}
    ELSE IF op = "vfs_truncate" THEN {2} ELSE {}
VfsPathOps == {"vfs_stat", "vfs_mkdir", "vfs_opendir", "vfs_remove"}
VfsInfallibleOps == {"vfs_readdir", "vfs_dirent_is_dir"}

\* The handlers whose context converts into a GenericContext, among those
\* the registry model runs, and the ones that receive a LoadGameContext.
GenericPhases == {"on_set_environment", "on_options_changed", "on_load_game",
                  "on_load_game_special", "on_hw_context_destroyed",
                  "on_camera_initialized",
                  "on_location_lifetime_status_initialized"}
LoadGamePhases == {"on_load_game", "on_load_game_special"}

\* The interface struct the host fills in: the negotiation it stems from and
\* the function pointers that are not null.
HostInterface(id, fns) == [id |-> id, fns |-> fns]

\* A lookup that does not check the function pointer it hands out.
get_interface_function_unchecked(slot, fn) ==
    IF slot = {} THEN "InterfaceNotFound" ELSE "Ok"

\* get_interface! and unwrap_interface_function!
get_interface_function(slot, fn) ==
    IF slot = {} THEN "InterfaceNotFound"
    ELSE LET interface == CHOOSE i \in slot : TRUE IN
         IF fn \in interface.fns THEN "Ok" ELSE "NullPointer"

\* A get_vfs_function! whose version form does not look at the version.
get_vfs_function_ungated(info, fn, version) ==
    get_interface_function(info.interface, fn)

\* A get_vfs_function! that looks for the interface before the version.
get_vfs_function_slot_first(info, fn, version) ==
    IF info.interface = {} THEN "InterfaceNotFound"
    ELSE IF \E v \in version : info.supported_version < v
    THEN "VersionMismatch"
    ELSE get_interface_function(info.interface, fn)

\* get_vfs_function!: version is {} for the form without a version.
get_vfs_function(info, fn, version) ==
    IF \E v \in version : info.supported_version < v
    THEN "VersionMismatch"
    ELSE get_interface_function(info.interface, fn)

\* An enable operation that adds the new interface to what the slot holds.
enable_entry_merging(slot, result, iface) ==
    IF result = "Ok" THEN slot \cup {iface} ELSE slot

enable_entry_keeping(slot, result, iface) ==
    IF result = "Ok" THEN {iface} ELSE slot

\* take(), get_X_interface()?, replace(iface): what the slot holds afterwards.
enable_entry(slot, result, iface) ==
    LET taken == {} IN
    IF result = "Ok" THEN {iface} ELSE taken

\* The enable operations of the LoadGameContext.
EnableOps == {"enable_rumble_interface", "enable_perf_interface",
              "enable_hw_render"}

\* The operations that only read the registry.
ReadOps == {"set_rumble_state", "perf_get_time_usec"} \cup VfsOps

\* The camera and location operations: enabling, and starting the service.
ServiceEnableOps == {"enable_camera_interface", "enable_location_interface"}
StartOps == {"camera_start", "location_service_start"}

\* An interface_lock that takes stop_perf_counter for a reader.
interface_lock_stop_reads(op) ==
    IF op \in EnableOps \cup {"enable_vfs_interface", "start_perf_counter"}
    THEN "write"
    ELSE IF op \in ReadOps \cup {"stop_perf_counter"} THEN "read"
    ELSE "none"

\* The lock an operation takes on the registry before anything else:
\* self.interfaces.write() or self.interfaces.read().
interface_lock(op) ==
    IF op \in EnableOps \cup {"enable_vfs_interface", "start_perf_counter",
                              "stop_perf_counter"}
                       \cup ServiceEnableOps
    THEN "write"
    ELSE IF op \in ReadOps \cup StartOps THEN "read"
    ELSE "none"

\* The locks the frames of the main thread hold on the registry, and whether
\* RwLock::read or RwLock::write conflicts with one of them.
HeldLocks ==
    {session.stack[i].lock : i \in 1..Len(session.stack)} \ {"none"}
Conflicts(mode) ==
    \/ mode = "write" /\ HeldLocks # {}
    \/ mode = "read" /\ "write" \in HeldLocks

\* The operation the core calls on its context becomes lastOp; prevOp keeps
\* the enable operation it follows at once, if any.  The operation gets its
\* lock first.
RegistryOp(op, phases) ==
    /\ phase \in phases
    /\ ~Conflicts(interface_lock(op.op))
    /\ lastOp' = [op EXCEPT !.lock = interface_lock(op.op)]
    /\ prevOp' = IF lastOp.op \in EnableOps THEN lastOp.op ELSE "none"
    /\ UNCHANGED <<wrapperVars, frameVars, callVars, deltaHist,
                   bitmask_accepted, audio_thread, processVars, load_args>>

counters_kept_on_failure(op, result, counters) ==
    IF op = "enable_perf_interface" /\ result = "Ok" THEN {} ELSE counters

\* enable_perf_interface: counters.clear() before get_perf_interface()?.
counters_after_enable(op, result, counters) ==
    IF op = "enable_perf_interface" THEN {} ELSE counters

\* An enable operation of the LoadGameContext.  hostOk: the callback's return
\* value; fns: the function pointers the host filled in.
enable_interface(op, cmd, slot, fns, hostOk) ==
    LET r == get_mut(environment_callback, hostOk)
        asked == environment_callback # {}
        id == negCount + 1
        iface == HostInterface(id, fns)
    IN
    /\ asked => negCount < MaxNegotiations
    /\ negCount' = IF asked THEN id ELSE negCount
    /\ interfaces' = [interfaces EXCEPT
           ![slot] = enable_entry(@, r, iface),
           !.perf_counters = counters_after_enable(op, r, @)]
    /\ RegistryOp([NoOp EXCEPT !.op = op, !.result = r,
                   !.calls = EnvCalls(environment_callback, cmd),
                   !.value = IF r = "Ok" THEN id ELSE 0,
                   !.input = IF asked THEN {hostOk} ELSE {},
                   !.taken = interfaces[slot],
                   !.cleared = interfaces.perf_counters
                               \ counters_after_enable(
                                     op, r, interfaces.perf_counters)],
                  LoadGamePhases)

enable_rumble_interface(hostOk, fnsFull) ==
    /\ enable_interface("enable_rumble_interface", "env:GET_RUMBLE_INTERFACE",
                        "rumble_interface",
                        IF fnsFull THEN RumbleFns ELSE {}, hostOk)
    /\ latest' = [latest EXCEPT !.rumble = lastOp'.value]
    /\ UNCHANGED hw_torn_down

enable_perf_interface(hostOk) ==
    /\ enable_interface("enable_perf_interface", "env:GET_PERF_INTERFACE",
                        "perf_interface", PerfFns, hostOk)
    /\ latest' = [latest EXCEPT !.perf = lastOp'.value]
    /\ UNCHANGED hw_torn_down

enable_hw_render(hostOk) ==
    /\ enable_interface("enable_hw_render", "env:SET_HW_RENDER",
                        "hw_render_callback", HwRenderFns, hostOk)
    /\ latest' = [latest EXCEPT !.hw_render = lastOp'.value]
    /\ hw_torn_down' = FALSE

\* SetEnvironmentContext::enable_vfs_interface.  hostOk, hostVersion and
\* ifaceNull: the callback's return value and what it left in the info
\* struct; fns: the function pointers of the interface it handed out.
enable_vfs_interface(min_version, hostOk, hostVersion, ifaceNull, fns) ==
    LET r == get_mut(environment_callback, hostOk)
        asked == environment_callback # {}
        id == negCount + 1
        old == interfaces.vfs_interface_info
        info == IF r = "Ok" /\ ~ifaceNull /\ hostVersion >= min_version
                THEN [supported_version |-> hostVersion,
                      interface |-> {HostInterface(id, fns)}]
                ELSE old
    IN
    /\ asked => negCount < MaxNegotiations
    /\ negCount' = IF asked THEN id ELSE negCount
    /\ interfaces' = [interfaces EXCEPT !.vfs_interface_info = info]
    /\ UNCHANGED <<latest, hw_torn_down>>
    /\ RegistryOp([NoOp EXCEPT !.op = "enable_vfs_interface",
                   !.result = IF info.interface # {} THEN "Ok"
                              ELSE "NullPointer",
                   !.calls = EnvCalls(environment_callback,
                                      "env:GET_VFS_INTERFACE"),
                   !.value = IF info.interface # {}
                             THEN info.supported_version ELSE 0,
                   !.input = {[min_version |-> min_version,
                               hostOk |-> asked /\ hostOk,
                               hostVersion |-> hostVersion]}],
                  {"on_set_environment"})

\* GenericContext::enable_extended_disk_control_interface.  hostVersion: the
\* callback's answer to the version query; hostOk: its answer to the set
\* call.
enable_extended_disk_control_interface(hostVersion, hostOk) ==
    LET asked == environment_callback # {}
        qr == get_mut(environment_callback, hostVersion.ok)
        version == IF qr = "Ok" THEN hostVersion.data ELSE 0
        sr == set_ptr(environment_callback, hostOk)
    IN
    /\ UNCHANGED <<interfaces, negCount, latest, hw_torn_down>>
    /\ RegistryOp([NoOp EXCEPT
           !.op = "enable_extended_disk_control_interface",
           !.result = IF version < 1 THEN "Unsupported"
                      ELSE IF sr # "Ok" THEN "FailedToEnable" ELSE "Ok",
           !.calls = EnvCalls(environment_callback,
                              "env:GET_DISK_CONTROL_INTERFACE_VERSION")
                     \o (IF version < 1 THEN <<>>
                         ELSE <<"env:SET_DISK_CONTROL_EXT_INTERFACE">>),
           !.input = IF asked /\ version >= 1 THEN {hostOk} ELSE {}],
          GenericPhases)

\* A dependent call: look the function up in the slot and call it.  value is
\* the negotiation the interface it used stems from.
interface_call(op, slot, fn) ==
    LET f == get_interface_function(slot, fn) IN
    /\ UNCHANGED <<interfaces, negCount, latest, hw_torn_down>>
    /\ RegistryOp([NoOp EXCEPT !.op = op, !.result = f,
                   !.calls = IF f = "Ok" THEN <<fn>> ELSE <<>>,
                   !.value = IF f = "Ok"
                             THEN (CHOOSE i \in slot : TRUE).id ELSE 0],
                  GenericPhases)

set_rumble_state ==
    interface_call("set_rumble_state", interfaces.rumble_interface,
                   "set_rumble_state")

perf_get_time_usec ==
    interface_call("perf_get_time_usec", interfaces.perf_interface,
                   "get_time_usec")

\* The counters of the performance interface: name -> registered.
PerfCounterNames == {"frame", "audio"}
CounterOf(name) == {c \in interfaces.perf_counters : c.name = name}

counter_registers_always(registered) == TRUE

\* if !counter.counter.registered { perf_register(..) }
counter_registers(registered) == ~registered

\* GenericContext::start_perf_counter.  nameOk: the name holds no nul byte;
\* hostRegisters: the host's perf_register marks the counter as registered.
start_perf_counter(name, nameOk, hostRegisters) ==
    LET slot == interfaces.perf_interface
        fns == IF slot = {} THEN {} ELSE (CHOOSE i \in slot : TRUE).fns
        known == CounterOf(name) # {}
        inserted == known \/ nameOk
        registered == \E c \in CounterOf(name) : c.registered
        registers == inserted /\ counter_registers(registered)
                     /\ "perf_register" \in fns
        passed == inserted /\ (~counter_registers(registered)
                               \/ "perf_register" \in fns)
        starts == passed /\ "perf_start" \in fns
        counters ==
            IF slot = {} \/ ~inserted THEN interfaces.perf_counters
            ELSE (interfaces.perf_counters \ CounterOf(name)) \cup
                 {[name |-> name,
                   registered |-> registered \/ (registers /\ hostRegisters)]}
    IN
    /\ interfaces' = [interfaces EXCEPT !.perf_counters = counters]
    /\ UNCHANGED <<negCount, latest, hw_torn_down>>
    /\ RegistryOp([NoOp EXCEPT !.op = "start_perf_counter",
           !.result = IF slot = {} THEN "InterfaceNotFound"
                      ELSE IF ~inserted THEN "StringError"
                      ELSE IF ~starts THEN "NullPointer" ELSE "Ok",
           !.calls = (IF slot # {} /\ registers
                      THEN <<"perf_register">> ELSE <<>>)
                     \o (IF slot # {} /\ starts
                         THEN <<"perf_start">> ELSE <<>>),
           !.input = {name}],
          GenericPhases)

stop_result_unchecked(enabled, known, registered, fnSet) ==
    IF ~enabled THEN "InterfaceNotFound"
    ELSE IF ~known THEN "UnknownPerformanceCounter"
    ELSE IF ~fnSet THEN "NullPointer"
    ELSE "Ok"

\* get_perf_interface!, then the match on counters.entry(name).
stop_result(enabled, known, registered, fnSet) ==
    IF ~enabled THEN "InterfaceNotFound"
    ELSE IF ~known THEN "UnknownPerformanceCounter"
    ELSE IF ~registered THEN "UnregisteredPerformanceCounter"
    ELSE IF ~fnSet THEN "NullPointer"
    ELSE "Ok"

\* GenericContext::stop_perf_counter.
stop_perf_counter(name) ==
    LET slot == interfaces.perf_interface
        fns == IF slot = {} THEN {} ELSE (CHOOSE i \in slot : TRUE).fns
        known == CounterOf(name) # {}
        registered == \E c \in CounterOf(name) : c.registered
        result == stop_result(slot # {}, known, registered,
                              "perf_stop" \in fns)
    IN
    /\ UNCHANGED <<interfaces, negCount, latest, hw_torn_down>>
    /\ RegistryOp([NoOp EXCEPT !.op = "stop_perf_counter",
           !.result = result,
           !.calls = IF result = "Ok" THEN <<"perf_stop">> ELSE <<>>,
           !.input = {name}],
          GenericPhases)

\* A VFS operation.  pathOk: the path holds no nul byte; hostOk: the host
\* function reports success.
vfs_call(op, pathOk, hostOk) ==
    LET f == get_vfs_function(interfaces.vfs_interface_info, op,
                              VfsRequiredVersion(op))
        converted == op \notin VfsPathOps \/ pathOk
    IN
    /\ UNCHANGED <<interfaces, negCount, latest, hw_torn_down>>
    /\ RegistryOp([NoOp EXCEPT !.op = op,
                   !.result = IF f # "Ok" THEN f
                              ELSE IF ~converted THEN "StringError"
                              ELSE IF hostOk \/ op \in VfsInfallibleOps
                                   THEN "Ok" ELSE "VfsError",
                   !.calls = IF f = "Ok" /\ converted THEN <<op>> ELSE <<>>],
                  GenericPhases)

\* The host tears the hardware context down: the trampoline handed out by
\* enable_hw_render forwards to the core.
retro_hw_context_destroyed_callback ==
    /\ Enter("retro_hw_context_destroyed_callback")
    /\ interfaces.hw_render_callback # {}
    /\ hw_torn_down' = TRUE
    /\ callLog' = <<"on_hw_context_destroyed">>
    /\ phase' = "on_hw_context_destroyed"
    /\ UNCHANGED <<wrapperVars, frameVars, interfaces, cont, run_delta,
                   opVars, negCount, deltaHist, latest, bitmask_accepted,
                   audio_thread, processVars>>

----------------------------------------------------------------------------
(* The audio callback, lib.rs and contexts/mod.rs *)

\* The handlers whose context offers the GenericContext operations, the
\* ones of the run loop included.
AudioEnablePhases == {"on_set_environment", "on_init", "on_options_changed",
                      "on_load_game", "on_run"}

\* GenericContext::enable_audio_callback hands retro_audio_callback_fn to the
\* host.  hostOk: the callback's answer to SET_AUDIO_CALLBACK.
enable_audio_callback(hostOk) ==
    LET r == set_ptr(environment_callback, hostOk) IN
    /\ phase \in AudioEnablePhases
    /\ audio_thread' = IF r = "Ok" /\ audio_thread = "off"
                       THEN "idle" ELSE audio_thread
    /\ lastOp' = [NoOp EXCEPT !.op = "enable_audio_callback", !.result = r,
                  !.calls = EnvCalls(environment_callback,
                                     "env:SET_AUDIO_CALLBACK"),
                  !.input = IF environment_callback = {} THEN {}
                            ELSE {hostOk}]
    /\ UNCHANGED <<wrapperVars, frameVars, interfaces, callVars, prevOp,
                   ghostVars, load_args, processVars>>

\* The host's audio thread calls the trampoline whenever it wants samples:
\* it takes RETRO_INSTANCE.as_mut(), borrows the wrapper's callbacks and
\* calls core.on_write_audio, whatever the main thread is doing.
retro_audio_callback_fn ==
    /\ audio_thread = "idle"
    /\ audio_thread' = "on_write_audio"
    /\ UNCHANGED <<wrapperVars, frameVars, interfaces, callVars, opVars,
                   ghostVars, load_args, processVars>>

\* on_write_audio returns to the audio thread.
audio_callback_returns ==
    /\ audio_thread = "on_write_audio"
    /\ audio_thread' = "idle"
    /\ UNCHANGED <<wrapperVars, frameVars, interfaces, callVars, opVars,
                   ghostVars, load_args, processVars>>

----------------------------------------------------------------------------
(* The lifecycle dispatcher: entry points, preludes and returns *)

Next ==
    \/ \E arg \in BOOLEAN : retro_set_input_poll(arg)
    \/ \E environment, hostAccepts \in BOOLEAN :
           retro_set_environment(environment, hostAccepts, {}, TRUE)
    \/ \E host \in HostBool : retro_init(host)
    \/ \E usec \in Usecs : retro_frame_time_callback_fn(usec)
    \/ \E host \in HostBool : retro_run(host)
    \/ retro_load_game
    \/ \E infoNull \in BOOLEAN :
           retro_load_game_special(SUBSYSTEM_ID, infoNull, SUBSYSTEM_NUM_ROMS)
    \/ options_changed_returns
    \/ \E status \in {"Ok", "Err"} : load_game_returns(status)
    \/ \E dataNull \in BOOLEAN : retro_serialize(dataNull)
    \/ \E dataNull \in BOOLEAN : retro_unserialize(dataNull)
    \/ \E result \in {"Ok", "Err"} : serialize_returns(result)
    \/ handler_returns

Spec == Init /\ [][Next]_vars

\* The entry points that receive a pointer from the host and check it.
NextPointers ==
    \/ \E arg \in BOOLEAN : retro_set_input_poll(arg)
    \/ \E environment \in BOOLEAN :
           retro_set_environment(environment, TRUE, {}, TRUE)
    \/ \E host \in HostBool : retro_init(host)
    \/ \E game_type \in {SUBSYSTEM_ID, 0} : \E infoNull \in BOOLEAN :
           retro_load_game_special(game_type, infoNull, SUBSYSTEM_NUM_ROMS)
    \/ options_changed_returns
    \/ \E loadOk \in BOOLEAN : test_core_load_game_special_returns(loadOk)
    \/ \E dataNull \in BOOLEAN : retro_serialize(dataNull)
    \/ \E dataNull \in BOOLEAN : retro_unserialize(dataNull)
    \/ \E result \in {"Ok", "Err"} : serialize_returns(result)
    \/ \E codeNull \in BOOLEAN : retro_cheat_set(codeNull)
    \/ handler_returns

SpecPointers == Init /\ [][NextPointers]_vars

----------------------------------------------------------------------------
(* The run loop: what the core does with its RunContext inside on_run *)

NextRun ==
    \/ \E arg \in BOOLEAN : retro_set_video_refresh(arg)
    \/ \E arg \in BOOLEAN : retro_set_input_state(arg)
    \/ \E environment, hostAccepts \in BOOLEAN :
           retro_set_environment(environment, hostAccepts, {}, TRUE)
    \/ \E host \in HostBool : retro_init(host)
    \/ \E host \in HostBool : retro_run(host)
    \/ options_changed_returns
    \/ handler_returns
    \/ \E w, h, p \in Dims : draw_frame(w, h, p)
    \/ dupe_frame
    \/ \E pressed \in PressedSets : get_joypad_state(pressed)
    \/ \E pressed \in PressedSets :
           \E maskReply \in HostMaskReplies(pressed) :
               get_joypad_bitmask(pressed, maskReply)

SpecRun == Init /\ [][NextRun]_vars

----------------------------------------------------------------------------
(* RunContext: the software framebuffer, contexts/mod.rs *)

PixelFormats == {"XRGB1555", "XRGB8888", "RGB565"}

\* PixelFormat::bit_per_pixel: the size of one pixel in bytes.
bit_per_pixel(format) == IF format = "XRGB8888" THEN 4 ELSE 2

\* MemoryAccess, a bitflags set, and the ones a caller asks for.
MemoryAccess == SUBSET {"READ", "WRITE"}
intersects(a, b) == a \cap b # {}

\* What the host does with GET_CURRENT_SOFTWARE_FRAMEBUFFER: it rejects the
\* call, or fills in a data pointer (null or not), a pitch and access flags.
HostFramebuffers ==
    [ok : BOOLEAN, data : {"null", "ptr"}, pitch : Dims,
     access_flags : {{}, {"READ", "WRITE"}}]

\* get_current_framebuffer: {} stands for an Err.
get_current_framebuffer(width, height, format, host) ==
    IF ~host.ok \/ host.data = "null" THEN {}
    ELSE {[source |-> "host", width |-> width, height |-> height,
           pitch |-> host.pitch, data_len |-> height * host.pitch,
           format |-> format, access_flags |-> host.access_flags]}

\* The length of the fallback's Framebuffer.
fallback_data_len(width, height, pitch) == width * height * pitch

\* The fallback arm: statics.FALLBACK_FRAMEBUFFER is the length of the Vec.
fallback_framebuffer(width, height, format) ==
    LET pitch == width * bit_per_pixel(format)
        data_len == fallback_data_len(width, height, pitch)
    IN [source |-> "fallback", width |-> width, height |-> height,
        pitch |-> pitch, data_len |-> data_len, format |-> format,
        access_flags |-> {"READ", "WRITE"}]

\* Vec::resize when the Vec is shorter than data_len.
resize_if_shorter(len, data_len) == IF len < data_len THEN data_len ELSE len

get_current_framebuffer_or_fallback(width, height, flags, format, host) ==
    LET got == get_current_framebuffer(width, height, format, host)
        usable == {fb \in got : intersects(fb.access_flags, flags)}
        fallback == fallback_framebuffer(width, height, format)
    IN
    /\ phase = "on_run"
    /\ lastOp' = [NoOp EXCEPT
                      !.op = "get_current_framebuffer_or_fallback",
                      !.result = "unit",
                      !.calls = <<"GET_CURRENT_SOFTWARE_FRAMEBUFFER">>,
                      !.input = {[width |-> width, height |-> height,
                                  format |-> format]},
                      !.value = IF usable # {}
                                THEN CHOOSE fb \in usable : TRUE
                                ELSE fallback]
    /\ statics' = IF usable # {} THEN statics
                  ELSE [statics EXCEPT
                           !.FALLBACK_FRAMEBUFFER =
                               resize_if_shorter(@, fallback.data_len)]
    /\ UNCHANGED <<wrapperVars, frameVars, interfaces, callVars, prevOp,
                   ghostVars, audio_thread, core, session, load_args>>

NextFramebuffer ==
    \/ \E environment \in BOOLEAN :
           retro_set_environment(environment, TRUE, {}, TRUE)
    \/ \E host \in HostBool : retro_init(host)
    \/ retro_run([ok |-> TRUE, data |-> FALSE])
    \/ options_changed_returns
    \/ handler_returns
    \/ \E width, height \in Dims : \E format \in PixelFormats :
           \E access_flags \in MemoryAccess \ {{}} :
               \E host \in HostFramebuffers :
                   get_current_framebuffer_or_fallback(width, height,
                                                       access_flags, format,
                                                       host)

SpecFramebuffer == Init /\ [][NextFramebuffer]_vars

\* The frames of the run loop: every draw call and dupe_frame, with the host
\* setting and clearing the video refresh callback between the runs.
NextFrames ==
    \/ \E arg \in BOOLEAN : retro_set_video_refresh(arg)
    \/ \E environment \in BOOLEAN :
           retro_set_environment(environment, TRUE, {}, TRUE)
    \/ \E host \in HostBool : retro_init(host)
    \/ retro_run([ok |-> TRUE, data |-> FALSE])
    \/ options_changed_returns
    \/ handler_returns
    \/ \E w, h, p \in Dims : draw_frame(w, h, p)
    \/ \E w, h, p \in Dims : draw_framebuffer(w, h, p)
    \/ \E w, h, p \in Dims : draw_hardware_frame(w, h, p)
    \/ dupe_frame

SpecFrames == Init /\ [][NextFrames]_vars

----------------------------------------------------------------------------
(* The registry: what the core negotiates and calls from its handlers *)

VfsVersions == 0..MaxVfsVersion
HostVersion == [ok : BOOLEAN, data : 0..1]

NextRegistry ==
    \/ \E environment, hostAccepts \in BOOLEAN :
           retro_set_environment(environment, hostAccepts, {}, TRUE)
    \/ retro_load_game
    \/ options_changed_returns
    \/ \E status \in {"Ok", "Err"} : load_game_returns(status)
    \/ handler_returns
    \/ retro_hw_context_destroyed_callback
    \/ \E hostOk, fnsFull \in BOOLEAN : enable_rumble_interface(hostOk, fnsFull)
    \/ \E hostOk \in BOOLEAN : enable_perf_interface(hostOk)
    \/ \E hostOk \in BOOLEAN : enable_hw_render(hostOk)
    \/ \E hostVersion \in HostVersion : \E hostOk \in BOOLEAN :
           enable_extended_disk_control_interface(hostVersion, hostOk)
    \/ set_rumble_state
    \/ perf_get_time_usec

SpecRegistry == Init /\ [][NextRegistry]_vars

----------------------------------------------------------------------------
(* The virtual file system: negotiation in on_set_environment and its use *)

NextVfs ==
    \/ \E environment, hostAccepts \in BOOLEAN :
           retro_set_environment(environment, hostAccepts, {}, TRUE)
    \/ retro_load_game
    \/ options_changed_returns
    \/ \E status \in {"Ok", "Err"} : load_game_returns(status)
    \/ handler_returns
    \/ \E min_version, hostVersion \in VfsVersions :
           \E hostOk, ifaceNull, fnsFull \in BOOLEAN :
               enable_vfs_interface(min_version, hostOk, hostVersion,
                                    ifaceNull,
                                    IF fnsFull THEN VfsOps ELSE {})
    \/ \E op \in VfsOps : \E pathOk, hostOk \in BOOLEAN :
           vfs_call(op, pathOk, hostOk)

SpecVfs == Init /\ [][NextVfs]_vars

----------------------------------------------------------------------------
(* Locking: every operation that takes the registry's RwLock *)

NextLocks ==
    \/ \E environment, hostAccepts \in BOOLEAN :
           retro_set_environment(environment, hostAccepts, {}, TRUE)
    \/ retro_load_game
    \/ options_changed_returns
    \/ \E status \in {"Ok", "Err"} : load_game_returns(status)
    \/ handler_returns
    \/ enable_rumble_interface(TRUE, TRUE)
    \/ \E hostOk \in BOOLEAN : enable_perf_interface(hostOk)
    \/ enable_hw_render(TRUE)
    \/ enable_vfs_interface(MaxVfsVersion, TRUE, MaxVfsVersion, FALSE, VfsOps)
    \/ \E name \in PerfCounterNames : \E nameOk, hostRegisters \in BOOLEAN :
           start_perf_counter(name, nameOk, hostRegisters)
    \/ \E name \in PerfCounterNames : stop_perf_counter(name)
    \/ set_rumble_state
    \/ perf_get_time_usec
    \/ \E op \in VfsOps : vfs_call(op, TRUE, TRUE)

SpecLocks == Init /\ [][NextLocks]_vars

----------------------------------------------------------------------------
(* The marshaling primitives called from a handler, environment.rs *)

MarshalFns == {"get", "get_unchecked", "get_mut", "set", "set_ptr"}

marshal(fn, callback, hostOk) ==
    CASE fn = "get" -> get(callback, hostOk)
      [] fn = "get_unchecked" -> get_unchecked(callback, hostOk)
      [] fn = "get_mut" -> get_mut(callback, hostOk)
      [] fn = "set" -> set(callback, hostOk)
      [] fn = "set_ptr" -> set_ptr(callback, hostOk)

\* The value a primitive returns: get and get_unchecked start from the
\* default or zeroed value, get_mut from the caller's data, set and set_ptr
\* return none.
marshal_value(fn, callback, data, host) ==
    CASE fn \in {"get", "get_unchecked"} ->
             get_mut_value(callback, Default, host)
      [] fn = "get_mut" -> get_mut_value(callback, data, host)
      [] fn \in {"set", "set_ptr"} -> {}

\* The command ids the handlers pass.
MarshalCmds == {"env:GET_CAN_DUPE", "env:SET_SUPPORT_NO_GAME"}

\* A handler calls one of the primitives with the wrapper's callback, the
\* command id and its data.  host: the callback's answer.
environment_call(fn, id, data, host) ==
    /\ phase # "host"
    /\ lastOp' = [NoOp EXCEPT
                     !.op = fn,
                     !.result = marshal(fn, environment_callback, host.ok),
                     !.calls = EnvCalls(environment_callback, id),
                     !.value = unwrap_or(marshal_value(
                                   fn, environment_callback, data, host),
                                         Default),
                     !.input = {[id |-> id, data |-> data, host |-> host]}]
    /\ UNCHANGED <<wrapperVars, frameVars, interfaces, callVars, prevOp,
                   ghostVars, audio_thread, processVars, load_args>>

----------------------------------------------------------------------------
(* Contexts and their conversion, contexts/macros.rs and contexts/mod.rs *)

\* The context type each handler is given.
ContextKind(p) ==
    CASE p = "on_set_environment" -> "SetEnvironmentContext"
      [] p = "on_init" -> "InitContext"
      [] p = "on_options_changed" -> "OptionsChangedContext"
      [] p = "on_load_game" -> "LoadGameContext"
      [] p = "on_load_game_special" -> "LoadGameSpecialContext"
      [] p = "on_run" -> "RunContext"
      [] OTHER -> "GenericContext"

NonGenericPhases == {"on_set_environment", "on_init", "on_options_changed",
                     "on_load_game", "on_load_game_special", "on_run"}

\* Arc::clone: another handle on the same allocation.
Arc_clone(arc) == arc

\* $name::new: a context holds a reference to the callback slot and a handle
\* on the registry.
make_context(name, callback_ref, registry) ==
    [kind |-> name, environment_callback |-> callback_ref,
     interfaces |-> registry]

\* The context the dispatcher builds for the handler of phase p.
WrapperContext(p) ==
    make_context(ContextKind(p), "&wrapper.environment_callback",
                 Arc_clone("wrapper.interfaces"))

\* A conversion that starts the Generic context on a registry of its own.
into_generic_detached(other) ==
    make_context("GenericContext", other.environment_callback,
                 "Arc::new(InterfaceList::default())")

\* From<&$type> for GenericContext.
into_generic(other) ==
    make_context("GenericContext", other.environment_callback,
                 Arc_clone(other.interfaces))

\* A handler converts the context it was given into a GenericContext.
context_into_generic ==
    /\ phase \in NonGenericPhases
    /\ lastOp' = [NoOp EXCEPT
                     !.op = "into_generic",
                     !.result = "Ok",
                     !.input = {[source |-> WrapperContext(phase),
                                 target |->
                                     into_generic(WrapperContext(phase))]}]
    /\ UNCHANGED <<wrapperVars, frameVars, interfaces, callVars, prevOp,
                   ghostVars, audio_thread, processVars, load_args>>

----------------------------------------------------------------------------
(* derive(CoreOptions): the pre-computed option tables, rust-libretro-proc *)

\* A byte string is a sequence of chunks; NUL is the terminating zero byte.
\* A null pointer is the empty sequence: a pointer to a string always holds
\* at least one chunk or the NUL.
NUL == "NUL"
NullPtr == <<>>

RETRO_NUM_CORE_OPTION_VALUES_MAX == 128

\* String::into_bytes: the bytes of the text, no terminator.
into_bytes(text) == <<text>>

lit_byte_str(lit) == into_bytes(lit) \o <<NUL>>

EmptyValue == [value |-> NullPtr, label |-> NullPtr]

\* A get_option_values that stops after the declared values.
get_option_values_unpadded(option) ==
    [index \in 1..Len(option.values) |->
        [value |-> lit_byte_str(option.values[index].value),
         label |-> IF option.values[index].label # {}
                   THEN lit_byte_str(unwrap_or(option.values[index].label, ""))
                   ELSE NullPtr]]

\* The loop runs over the first RETRO_NUM_CORE_OPTION_VALUES_MAX - 1 slots
\* and a last empty entry is pushed after it.
get_option_values(option) ==
    [index \in 1..(RETRO_NUM_CORE_OPTION_VALUES_MAX - 1) |->
        IF index <= Len(option.values)
        THEN [value |-> lit_byte_str(option.values[index].value),
              label |-> IF option.values[index].label # {}
                        THEN lit_byte_str(
                                 unwrap_or(option.values[index].label, ""))
                        ELSE NullPtr]
        ELSE EmptyValue]
    \o <<EmptyValue>>

get_option_default_value(option) ==
    IF option.default_value # {}
    THEN lit_byte_str(unwrap_or(option.default_value, ""))
    ELSE NullPtr

\* Vec<String>::join.
join(texts, separator) ==
    [i \in 1..(IF Len(texts) = 0 THEN 0 ELSE 2 * Len(texts) - 1) |->
        IF i % 2 = 1 THEN texts[(i + 1) \div 2] ELSE separator]

\* One retro_core_option_definition.
core_options(option) ==
    [key |-> lit_byte_str(option.key),
     desc |-> lit_byte_str(option.desc),
     info |-> lit_byte_str(option.info),
     values |-> get_option_values(option),
     default_value |-> get_option_default_value(option)]

\* One retro_variable: format!("{}; {}", desc, values.join("|")).into_bytes()
\* becomes the byte string as it is.
core_variables(option) ==
    [key |-> lit_byte_str(option.key),
     value |-> into_bytes(option.desc) \o into_bytes("; ")
               \o join([i \in 1..Len(option.values) |->
                           option.values[i].value], "|")]

\* One retro_core_option_v2_definition.
core_options_v2(option) ==
    [key |-> lit_byte_str(option.key),
     desc |-> lit_byte_str(option.desc),
     info |-> lit_byte_str(option.info),
     desc_categorized |-> lit_byte_str(unwrap_or(option.desc_categorized, "")),
     info_categorized |-> lit_byte_str(unwrap_or(option.info_categorized, "")),
     category_key |-> lit_byte_str(unwrap_or(option.category_key, "")),
     values |-> get_option_values(option),
     default_value |-> get_option_default_value(option)]

\* One retro_core_option_v2_category.
core_option_categories(category) ==
    [key |-> lit_byte_str(category.key),
     desc |-> lit_byte_str(category.desc),
     info |-> lit_byte_str(category.info)]

NullValues == [index \in 1..RETRO_NUM_CORE_OPTION_VALUES_MAX |-> EmptyValue]

\* The four tables with their list terminators.
derive_core_options(options, categories) ==
    [RETRO_CORE_OPTIONS |->
         [i \in 1..Len(options) |-> core_options(options[i])]
         \o <<[key |-> NullPtr, desc |-> NullPtr, info |-> NullPtr,
               values |-> NullValues, default_value |-> NullPtr]>>,
     RETRO_CORE_VARIABLES |->
         [i \in 1..Len(options) |-> core_variables(options[i])]
         \o <<[key |-> NullPtr, value |-> NullPtr]>>,
     RETRO_CORE_OPTION_V2_CATEGORIES |->
         [i \in 1..Len(categories) |-> core_option_categories(categories[i])]
         \o <<[key |-> NullPtr, desc |-> NullPtr, info |-> NullPtr]>>,
     RETRO_CORE_OPTION_V2_DEFINITIONS |->
         [i \in 1..Len(options) |-> core_options_v2(options[i])]
         \o <<[key |-> NullPtr, desc |-> NullPtr, info |-> NullPtr,
               desc_categorized |-> NullPtr, info_categorized |-> NullPtr,
               category_key |-> NullPtr, values |-> NullValues,
               default_value |-> NullPtr]>>]

\* How a host reads a legacy value: the text before "; " is the description,
\* the "|"-separated entries follow, and the first entry is the default.
\* {} if the string lists no entry.
FirstEntry(value) == IF Len(value) >= 3 THEN {value[3]} ELSE {}

\* The options a core declares with #[options(...)].
MaxValues == 129       \* an option declares up to MaxValues values
MaxOptions == 2        \* a core declares up to MaxOptions options

ValueName(i) ==
    CASE i = 1 -> "false" [] i = 2 -> "true" [] i = 3 -> "unstable"
      [] OTHER -> ToString(i)

DeclaredValues(n) ==
    [i \in 1..n |-> [value |-> ValueName(i),
                     label |-> IF i = 3 THEN {"Turbo (Unstable)"} ELSE {}]]

ValueCounts ==
    {n \in 0..MaxValues :
        n <= 3 \/ n >= RETRO_NUM_CORE_OPTION_VALUES_MAX - 2}

DeclaredDefaults(n) ==
    {{}, {"missing"}} \cup {{ValueName(i)} : i \in 1..(IF n < 3 THEN n ELSE 3)}

DeclaredOption(n, default) ==
    [key |-> "foo_option",
     desc |-> "Speed hack coprocessor X",
     info |-> "Provides increased performance",
     desc_categorized |-> {}, info_categorized |-> {},
     category_key |-> IF n % 2 = 1 THEN {"advanced_settings"} ELSE {},
     values |-> DeclaredValues(n),
     default_value |-> default]

DeclaredOptionsOf(n) ==
    {DeclaredOption(n, default) : default \in DeclaredDefaults(n)}

DeclaredOptionSet == UNION {DeclaredOptionsOf(n) : n \in ValueCounts}

\* The documented example option, and the lists of options a core declares:
\* none, or any one option followed by copies of the example.
ExampleOption == DeclaredOption(3, {"true"})

DeclaredOptionLists ==
    {<<>>} \cup
    {[i \in 1..k |-> IF i = 1 THEN first ELSE ExampleOption] :
        k \in 1..MaxOptions, first \in DeclaredOptionSet}

DeclaredCategories ==
    {<<>>, <<[key |-> "advanced_settings", desc |-> "Advanced",
              info |-> "Options affecting low-level emulation"]>>}

\* The macro expands when the core is built, before the host calls anything.
derive_CoreOptions(options, categories) ==
    /\ phase = "host"
    /\ entry = "none"
    /\ lastOp = NoOp
    /\ lastOp' = [NoOp EXCEPT
                     !.op = "derive_core_options",
                     !.input = {[options |-> options,
                                 expanded |->
                                     derive_core_options(options,
                                                         categories)]}]
    /\ UNCHANGED <<wrapperVars, frameVars, interfaces, callVars, prevOp,
                   ghostVars, audio_thread, processVars, load_args>>

----------------------------------------------------------------------------
(* The audio thread next to the main thread's run loop *)

NextAudio ==
    \/ \E environment, hostAccepts \in BOOLEAN :
           retro_set_environment(environment, hostAccepts, {}, TRUE)
    \/ \E host \in HostBool : retro_init(host)
    \/ \E usec \in Usecs : retro_frame_time_callback_fn(usec)
    \/ \E host \in HostBool : retro_run(host)
    \/ options_changed_returns
    \/ handler_returns
    \/ \E hostOk \in BOOLEAN : enable_audio_callback(hostOk)
    \/ retro_audio_callback_fn
    \/ audio_callback_returns

SpecAudio == Init /\ [][NextAudio]_vars

----------------------------------------------------------------------------
(* Loading special content: any core, and the test core *)

MaxInfo == 2           \* the host passes 1..MaxInfo infos
GameTypes == {0, SUBSYSTEM_ID}

NextSpecial ==
    \/ \E environment, hostAccepts \in BOOLEAN :
           retro_set_environment(environment, hostAccepts, {}, TRUE)
    \/ \E host \in HostBool : retro_init(host)
    \/ \E usec \in Usecs : retro_frame_time_callback_fn(usec)
    \/ handler_returns
    \/ retro_load_game
    \/ \E game_type \in GameTypes, num_info \in 1..MaxInfo :
           \E infoNull \in BOOLEAN :
               retro_load_game_special(game_type, infoNull, num_info)
    \/ options_changed_returns
    \/ \E status \in {"Ok", "Err"} : load_game_returns(status)
    \/ \E loadOk \in BOOLEAN : test_core_load_game_special_returns(loadOk)

SpecSpecial == Init /\ [][NextSpecial]_vars

----------------------------------------------------------------------------
(* Environment negotiation against hosts of every options version *)

NextOptions ==
    \/ \E environment, hostAccepts, optionsOk \in BOOLEAN :
           \E hostVersion \in OptionsVersions :
               retro_set_environment(environment, hostAccepts, hostVersion,
                                     optionsOk)
    \/ \E host \in HostBool : retro_init(host)
    \/ \E arg \in BOOLEAN : retro_set_input_poll(arg)
    \/ handler_returns

SpecOptions == Init /\ [][NextOptions]_vars

----------------------------------------------------------------------------
(* Handlers that call the marshaling primitives directly *)

NextMarshal ==
    \/ \E environment, hostAccepts \in BOOLEAN :
           retro_set_environment(environment, hostAccepts, {}, TRUE)
    \/ \E host \in HostBool : retro_init(host)
    \/ \E host \in HostBool : retro_run(host)
    \/ options_changed_returns
    \/ handler_returns
    \/ \E fn \in MarshalFns, id \in MarshalCmds, data \in 1..MaxData :
           \E host \in HostData : environment_call(fn, id, data, host)

SpecMarshal == Init /\ [][NextMarshal]_vars

----------------------------------------------------------------------------
(* Handlers that convert their context *)

NextContexts ==
    \/ \E environment, hostAccepts \in BOOLEAN :
           retro_set_environment(environment, hostAccepts, {}, TRUE)
    \/ \E host \in HostBool : retro_init(host)
    \/ \E host \in HostBool : retro_run(host)
    \/ retro_load_game
    \/ \E infoNull \in BOOLEAN :
           retro_load_game_special(SUBSYSTEM_ID, infoNull,
                                   SUBSYSTEM_NUM_ROMS)
    \/ options_changed_returns
    \/ \E status \in {"Ok", "Err"} : load_game_returns(status)
    \/ handler_returns
    \/ context_into_generic

SpecContexts == Init /\ [][NextContexts]_vars

----------------------------------------------------------------------------
(* Cores built from every declaration of options *)

NextDerive ==
    \/ \E options \in DeclaredOptionLists :
           \E categories \in DeclaredCategories :
               derive_CoreOptions(options, categories)
    \/ \E environment, hostAccepts \in BOOLEAN :
           retro_set_environment(environment, hostAccepts, {}, TRUE)
    \/ handler_returns

SpecDerive == Init /\ [][NextDerive]_vars

----------------------------------------------------------------------------
(* Properties of the lifecycle dispatcher, checked under Spec *)

\* Helpers over a call log.
Events(log) == {log[i] : i \in 1..Len(log)}
Count(log, e) == Cardinality({i \in 1..Len(log) : log[i] = e})
Precedes(log, a, b) ==
    \A i \in 1..Len(log) : log[i] = b => \E j \in 1..(i - 1) : log[j] = a

Queries == {"query:true", "query:false", "query:failed"}

\* C1: retro_run asks the host whether variables changed before anything
\* else; when the answer is "true" or the query failed, on_options_changed is
\* delivered exactly once and before on_run; when the query succeeded with
\* "false", on_options_changed is not delivered.
C1_OptionsChangedBeforeRun ==
    entry = "retro_run" =>
        /\ Len(callLog) >= 1 /\ callLog[1] \in Queries
        /\ Count(callLog, "on_options_changed") <= 1
        /\ Precedes(callLog, "on_options_changed", "on_run")
              \/ "on_options_changed" \notin Events(callLog)
        /\ "on_run" \in Events(callLog) =>
              (Count(callLog, "on_options_changed") = 1
                  <=> callLog[1] \in {"query:true", "query:failed"})
        /\ callLog[1] = "query:false" =>
              "on_options_changed" \notin Events(callLog)
        /\ phase = "on_options_changed" =>
              callLog[Len(callLog)] = "on_options_changed"

\* The query failed, the options handler ran and on_run is running.
C1_Witness ==
    /\ entry = "retro_run"
    /\ phase = "on_run"
    /\ callLog[1] = "query:failed"
    /\ Count(callLog, "on_options_changed") = 1

\* C2: a reported frame-time delta is handed to exactly one on_run: the run
\* after a report receives the reported value, and a run that follows a run
\* without a report in between receives nothing.
C2_DeltaConsumedOnce ==
    /\ \A i \in 2..Len(deltaHist) :
          deltaHist[i].kind = "run" =>
              deltaHist[i].val =
                  IF deltaHist[i - 1].kind = "report"
                  THEN deltaHist[i - 1].val ELSE {}
    /\ (phase = "on_run" /\ deltaHist # <<>>) =>
          /\ deltaHist[Len(deltaHist)].kind = "run"
          /\ deltaHist[Len(deltaHist)].val = run_delta
          /\ frame_delta = {}

\* A report, the run that consumed it, and a second run that got nothing.
C2_Witness ==
    /\ phase = "on_run"
    /\ Len(deltaHist) >= 3
    /\ LET n == Len(deltaHist) IN
          /\ deltaHist[n - 2].kind = "report"
          /\ deltaHist[n - 1] = [kind |-> "run", val |-> deltaHist[n - 2].val]
          /\ deltaHist[n] = [kind |-> "run", val |-> {}]

\* C5: retro_serialize and retro_unserialize return true exactly when the
\* handler succeeded; a handler error is logged and false is returned.
C5_SerializeReturnsHandlerResult ==
    (entry \in {"retro_serialize", "retro_unserialize"}
        /\ handlerResult # "none") =>
        /\ ret = {handlerResult = "Ok"}
        /\ handlerResult = "Err" => "log_error" \in Events(callLog)

\* C10: retro_load_game and retro_load_game_special deliver
\* on_options_changed before they forward to on_load_game and
\* on_load_game_special.
C10_OptionsChangedBeforeLoad ==
    /\ Precedes(callLog, "on_options_changed", "on_load_game")
    /\ Precedes(callLog, "on_options_changed", "on_load_game_special")
    /\ phase \in {"on_load_game", "on_load_game_special"} =>
          callLog = <<"on_options_changed", phase>>

\* Both load handlers are reached.
C10_Witness ==
    /\ phase = "on_load_game"
    /\ entry = "retro_load_game"
    /\ callLog = <<"on_options_changed", "on_load_game">>

\* on_run is running and the host has not reported a frame time since the
\* previous on_run.
RunWithoutReport ==
    /\ entry = "retro_run"
    /\ phase = "on_run"
    /\ LET n == Len(deltaHist) IN
          /\ n >= 2
          /\ deltaHist[n].kind = "run"
          /\ deltaHist[n - 1].kind = "run"

\* C14 as stated: a retro_run without a new timing report since the
\* previous run hands on_run the nominal frame delta of 16,666 microseconds.
C14_NominalDeltaFromDispatcher ==
    RunWithoutReport => run_delta = {NOMINAL_FRAME_USEC}

\* C14 as the code has it: such a retro_run hands on_run no frame delta at
\* all (None); the example core turns that into 16,666 microseconds itself.
C14_NoDeltaWithoutReport ==
    RunWithoutReport =>
        /\ run_delta = {}
        /\ unwrap_or(run_delta, NOMINAL_FRAME_USEC) = NOMINAL_FRAME_USEC

\* Two runs in a row, the first of which consumed a report.
C14_Witness ==
    /\ RunWithoutReport
    /\ Len(deltaHist) >= 3
    /\ deltaHist[Len(deltaHist) - 2].kind = "report"
    /\ deltaHist[Len(deltaHist) - 1].val # {}
    /\ run_delta = {}

----------------------------------------------------------------------------
(* Properties of the run loop, checked under SpecRun *)

\* C3: dupe_frame before any frame was drawn, or when the host never
\* granted frame duping, writes an error and does not invoke the video
\* refresh callback.
C3_DupeRefused ==
    (lastOp.op = "dupe_frame" /\ (~had_frame \/ ~can_dupe)) =>
        /\ lastOp.logged
        /\ lastOp.calls = <<>>

\* Duping was granted and the callback is set, but no frame was drawn yet.
C3_Witness ==
    /\ lastOp.op = "dupe_frame"
    /\ can_dupe /\ video_refresh_callback /\ ~had_frame
    /\ lastOp.logged

\* C4: when the host did not accept the bitmask negotiation,
\* get_joypad_bitmask returns the joypad state that get_joypad_state builds
\* from the sixteen single-button queries.
C4_BitmaskFallbackEquivalent ==
    (lastOp.op = "get_joypad_bitmask" /\ ~bitmask_accepted) =>
        lastOp.value =
            get_joypad_state_value(input_state_callback, lastOp.input).value

----------------------------------------------------------------------------
(* Properties of the registry, checked under SpecRegistry and SpecVfs *)

\* The registry slot an enable operation fills and its entry in `latest`.
SlotOf(op) ==
    CASE op = "enable_rumble_interface" -> interfaces.rumble_interface
      [] op = "enable_perf_interface" -> interfaces.perf_interface
      [] op = "enable_hw_render" -> interfaces.hw_render_callback
LatestOf(op) ==
    CASE op = "enable_rumble_interface" -> latest.rumble
      [] op = "enable_perf_interface" -> latest.perf
      [] op = "enable_hw_render" -> latest.hw_render

C7_RejectedIsNotFoundOrFailedToEnable ==
    (lastOp.op \in EnableOps
            \cup {"enable_extended_disk_control_interface"}
        /\ lastOp.input = {FALSE}) =>
        lastOp.result \in {"InterfaceNotFound", "FailedToEnable"}

\* C7 as the code has it: when the host rejects the call,
\* enable_rumble_interface, enable_perf_interface and enable_hw_render return
\* the marshaling error Failure and leave the slot empty; only
\* enable_extended_disk_control_interface returns FailedToEnable.
C7_RejectedIsFailure ==
    /\ \A op \in EnableOps :
          (lastOp.op = op /\ lastOp.input = {FALSE}) =>
              lastOp.result = "Failure" /\ SlotOf(op) = {}
    /\ (lastOp.op = "enable_extended_disk_control_interface"
            /\ lastOp.input = {FALSE}) =>
          lastOp.result = "FailedToEnable"
    /\ lastOp.op \in EnableOps => lastOp.result # "InterfaceNotFound"

\* The host rejected GET_RUMBLE_INTERFACE.
C7_Witness ==
    /\ lastOp.op = "enable_rumble_interface"
    /\ lastOp.input = {FALSE}
    /\ lastOp.calls = <<"env:GET_RUMBLE_INTERFACE">>
    /\ lastOp.result = "Failure"

\* C8: a VFS directory or stat operation called while the negotiated VFS
\* version is below 3 fails with a version mismatch and calls nothing in
\* the host interface.
C8_VfsVersionGate ==
    (lastOp.op \in VfsDirOps
        /\ interfaces.vfs_interface_info.supported_version < 3) =>
        /\ lastOp.result = "VersionMismatch"
        /\ lastOp.calls = <<>>

\* vfs_stat against a negotiated version 2 interface that has the function.
C8_Witness ==
    /\ lastOp.op = "vfs_stat"
    /\ interfaces.vfs_interface_info.supported_version = 2
    /\ \E i \in interfaces.vfs_interface_info.interface : "vfs_stat" \in i.fns
    /\ lastOp.result = "VersionMismatch"

\* C9: once the hardware-context-destroyed event has been delivered and the
\* core's handler has returned, the registry holds no hardware render
\* interface until enable_hw_render is called again.
C9_TeardownClearsRenderInterface ==
    (hw_torn_down /\ phase = "host") => interfaces.hw_render_callback = {}

----------------------------------------------------------------------------
(* Properties of the locking discipline, checked under SpecLocks *)

\* The operations that take the write lock according to the statement of
\* C11, and according to the code.
ClaimedWriters == EnableOps \cup {"enable_vfs_interface", "start_perf_counter"}
Writers == ClaimedWriters \cup {"stop_perf_counter"}

\* C11 as stated: the write lock is taken only by the enable operations and
\* by performance-counter registration/start; every other operation on an
\* interface, stop_perf_counter included, takes only the read lock.
C11_StopCounterReads ==
    /\ lastOp.lock = "write" => lastOp.op \in ClaimedWriters
    /\ lastOp.op \in ReadOps \cup {"stop_perf_counter"} =>
          lastOp.lock = "read"

\* C11 as the code has it: the registry changes only in a step that holds
\* the write lock; the write lock is taken by the enable operations and by
\* start_perf_counter and stop_perf_counter, and by nothing else; rumble,
\* performance-time and VFS calls take the read lock and leave the registry
\* as it is.
C11_LockDiscipline ==
    [][/\ interfaces' # interfaces => lastOp'.lock = "write"
       /\ lastOp'.lock = "write" <=> lastOp'.op \in Writers
       /\ lastOp'.op \in ReadOps =>
             lastOp'.lock = "read" /\ interfaces' = interfaces]_vars

\* A registered counter was stopped.
C11_Witness ==
    /\ lastOp.op = "stop_perf_counter"
    /\ lastOp.result = "Ok"
    /\ lastOp.calls = <<"perf_stop">>
    /\ lastOp.lock = "write"

----------------------------------------------------------------------------
(* Properties of the audio thread, checked under SpecAudio *)

\* C12: the audio callback touches the dispatcher's and the core's state
\* only under the shared lock, so on_write_audio never runs on the audio
\* thread while a handler of the core runs on the main thread.
C12_AudioCallbackExcluded ==
    ~(audio_thread = "on_write_audio" /\ phase # "host")

----------------------------------------------------------------------------
(* Properties of dependent calls, checked under SpecRegistry *)

\* What a dependent call must do given the slot it reads and the function
\* it needs.
DependentCallOk(slot, fn) ==
    IF slot = {}
    THEN lastOp.result = "InterfaceNotFound" /\ lastOp.calls = <<>>
    ELSE IF \E i \in slot : fn \notin i.fns
         THEN lastOp.result = "NullPointer" /\ lastOp.calls = <<>>
         ELSE lastOp.result = "Ok" /\ lastOp.calls = <<fn>>

----------------------------------------------------------------------------
(* Properties of special content loading, checked under SpecSpecial *)

\* retro_load_game_special has returned for a game type or a number of infos
\* the core did not declare.
UndeclaredSpecialLoad ==
    /\ entry = "retro_load_game_special"
    /\ ret # {}
    /\ \E a \in load_args : \/ a.game_type # SUBSYSTEM_ID
                            \/ a.num_info # SUBSYSTEM_NUM_ROMS

\* C15 as stated: retro_load_game_special rejects a call with an undeclared
\* game type or a mismatching number of infos.
C15_DispatcherValidatesSpecial ==
    UndeclaredSpecialLoad => ret = {FALSE}

\* C15 as the code has it: retro_load_game_special rejects a null info
\* pointer without calling the core and otherwise returns whether the
\* core's on_load_game_special succeeded; the game type and the number of
\* infos are checked by the handler, as the test core's does.
C15_SpecialLoadReturnsHandlerResult ==
    (entry = "retro_load_game_special" /\ ret # {}) =>
        /\ IF handlerResult = "none"
           THEN ret = {FALSE} /\ callLog = <<"log_warn">>
           ELSE ret = {handlerResult = "Ok"}
                /\ "on_load_game_special" \in Events(callLog)
        /\ \A a \in load_args :
              /\ handlerResult = "UnknownGameType" =>
                    a.game_type # SUBSYSTEM_ID
              /\ handlerResult = "InvalidNumberOfInfos" =>
                    a.num_info # SUBSYSTEM_NUM_ROMS

\* The test core rejected an undeclared game type.
C15_Witness ==
    /\ UndeclaredSpecialLoad
    /\ handlerResult = "UnknownGameType"
    /\ ret = {FALSE}

----------------------------------------------------------------------------
(* Properties of environment negotiation, checked under SpecOptions *)

Representations ==
    {"env:SET_VARIABLES", "env:SET_CORE_OPTIONS", "env:SET_CORE_OPTIONS_V2"}

\* The representation that matches an options version.
Matching(version) ==
    IF version >= 2 THEN "env:SET_CORE_OPTIONS_V2"
    ELSE IF version = 1 THEN "env:SET_CORE_OPTIONS"
    ELSE "env:SET_VARIABLES"

\* retro_set_environment has run the options routine against a callback.
OptionsDeclared ==
    /\ entry = "retro_set_environment"
    /\ lastOp.op = "set_core_options"
    /\ environment_callback # {}

LaterSetEnvironment ==
    /\ entry = "retro_set_environment"
    /\ phase = "host"
    /\ phase' = "on_set_environment"

\* C17 as stated: only the first retro_set_environment invokes the core's
\* options routine; a later invocation does not invoke it again.
C17_OptionsOnInitialOnly ==
    [][LaterSetEnvironment => "set_core_options" \notin Events(callLog')]_vars


\* C18 as stated: within one retro_set_environment the callback is
\* registered, then bitmask support is negotiated, then the options routine
\* runs, then the hook.
C18_RegisterThenNegotiate ==
    (entry = "retro_set_environment" /\ environment_callback # {}) =>
        /\ Precedes(callLog, "register_callback", "env:GET_INPUT_BITMASKS")
        /\ Precedes(callLog, "env:GET_INPUT_BITMASKS", "set_core_options")
        /\ Precedes(callLog, "set_core_options", "on_set_environment")

\* C18 as the code has it: bitmask support is negotiated with the handed
\* callback first, then the callback is registered, then the options routine
\* runs, then the hook; the options routine queries the new callback.  With
\* no callback handed over the stored one is withdrawn, nothing is asked of
\* the host, and the options routine and the hook still run.
C18_NegotiateThenRegister ==
    entry = "retro_set_environment" =>
        /\ Count(callLog, "set_core_options") = 1
        /\ Count(callLog, "on_set_environment") = 1
        /\ callLog[Len(callLog)] = "on_set_environment"
        /\ Precedes(callLog, "set_core_options", "on_set_environment")
        /\ IF environment_callback # {}
           THEN /\ callLog[1] = "env:GET_INPUT_BITMASKS"
                /\ Count(callLog, "env:GET_INPUT_BITMASKS") = 1
                /\ Count(callLog, "register_callback") = 1
                /\ Precedes(callLog, "env:GET_INPUT_BITMASKS",
                            "register_callback")
                /\ Precedes(callLog, "register_callback", "set_core_options")
                /\ Precedes(callLog, "set_core_options",
                            "env:GET_CORE_OPTIONS_VERSION")
                /\ Count(callLog, "env:GET_CORE_OPTIONS_VERSION") >= 1
           ELSE /\ callLog[1] = "withdraw_callback"
                /\ \A e \in Events(callLog) :
                      e \in {"withdraw_callback", "set_core_options",
                             "log_warn", "on_set_environment"}

\* A callback was handed over and the hook was reached.
C18_Witness ==
    /\ entry = "retro_set_environment"
    /\ phase = "on_set_environment"
    /\ environment_callback # {}
    /\ "register_callback" \in Events(callLog)
    /\ "on_set_environment" \in Events(callLog)

----------------------------------------------------------------------------
(* Input polling in retro_run, checked under Spec *)

\* retro_run has forwarded to on_run.
RunForwarded == entry = "retro_run" /\ "on_run" \in Events(callLog)

\* C19: in every retro_run the input poll callback is invoked exactly once
\* if one is registered and not at all otherwise, after the options-changed
\* check and before on_run; on_run is forwarded either way.
C19_PollOncePerRun ==
    /\ (entry = "retro_run" /\ phase \in {"host", "on_run"}) => RunForwarded
    /\ RunForwarded =>
        /\ Count(callLog, "on_run") = 1
        /\ Count(callLog, "input_poll") =
               (IF input_poll_callback THEN 1 ELSE 0)
        /\ \A i, j \in 1..Len(callLog) :
              callLog[i] = "input_poll" =>
                  /\ callLog[j] = "on_run" => i < j
                  /\ callLog[j] \in Queries \cup {"on_options_changed"} =>
                        j < i

\* A run polled input after delivering on_options_changed.
C19_Witness ==
    /\ RunForwarded
    /\ input_poll_callback
    /\ "on_options_changed" \in Events(callLog)
    /\ Count(callLog, "input_poll") = 1

----------------------------------------------------------------------------
(* Properties of the marshaling primitives, checked under SpecMarshal *)

C21_CallbackDecidesResult ==
    (lastOp.op \in MarshalFns /\ environment_callback # {}) =>
        \A i \in lastOp.input :
            /\ lastOp.calls = <<i.id>>
            /\ lastOp.result = "Ok" <=> i.host.ok
            /\ ~i.host.ok => lastOp.result = "Failure"
            /\ (i.host.ok /\ lastOp.op \in {"get", "get_unchecked"}) =>
                   lastOp.value = unwrap_or(i.host.written, Default)
            /\ (i.host.ok /\ lastOp.op = "get_mut") =>
                   lastOp.value = unwrap_or(i.host.written, i.data)

\* get_mut returned a value the callback wrote over the caller's data.
C21_Witness ==
    /\ lastOp.op = "get_mut"
    /\ environment_callback # {}
    /\ lastOp.result = "Ok"
    /\ \E i \in lastOp.input :
          i.host.written # {} /\ i.host.written # {i.data}
                              /\ lastOp.value # i.data

----------------------------------------------------------------------------
(* Properties of context conversion, checked under SpecContexts *)

\* C22: converting a non-generic context into a GenericContext never fails
\* and yields a context with the same environment callback reference and the
\* same registry handle as the source.
C22_IntoGenericKeepsReferences ==
    lastOp.op = "into_generic" =>
        /\ lastOp.result = "Ok"
        /\ \A c \in lastOp.input :
              /\ c.source.kind = ContextKind(phase)
              /\ c.source.kind # "GenericContext"
              /\ c.target.kind = "GenericContext"
              /\ c.target.environment_callback =
                     c.source.environment_callback
              /\ c.target.interfaces = c.source.interfaces

\* on_load_game_special converted its context.
C22_Witness ==
    /\ lastOp.op = "into_generic"
    /\ phase = "on_load_game_special"
    /\ \E c \in lastOp.input : c.source.kind = "LoadGameSpecialContext"

----------------------------------------------------------------------------
(* Properties of the pre-computed option tables, checked under SpecDerive *)

Derived == lastOp.op = "derive_core_options"

Last(table) == table[Len(table)]

\* The three representations end with their all-null entry.
SentinelTerminated(e) ==
    /\ Last(e.RETRO_CORE_VARIABLES) = [key |-> NullPtr, value |-> NullPtr]
    /\ LET t == Last(e.RETRO_CORE_OPTIONS) IN
           /\ t.key = NullPtr /\ t.desc = NullPtr /\ t.info = NullPtr
           /\ t.default_value = NullPtr
           /\ \A j \in 1..Len(t.values) : t.values[j] = EmptyValue
    /\ LET t == Last(e.RETRO_CORE_OPTION_V2_DEFINITIONS) IN
           /\ t.key = NullPtr /\ t.desc = NullPtr /\ t.info = NullPtr
           /\ t.desc_categorized = NullPtr /\ t.info_categorized = NullPtr
           /\ t.category_key = NullPtr /\ t.default_value = NullPtr
           /\ \A j \in 1..Len(t.values) : t.values[j] = EmptyValue
    /\ Last(e.RETRO_CORE_OPTION_V2_CATEGORIES) =
           [key |-> NullPtr, desc |-> NullPtr, info |-> NullPtr]

\* array has the fixed capacity and holds the first k declared values, then
\* only empty entries, at least one.
HoldsValues(array, declared, k) ==
    /\ Len(array) = RETRO_NUM_CORE_OPTION_VALUES_MAX
    /\ k < Len(array)
    /\ \A j \in 1..k : array[j].value = lit_byte_str(declared[j].value)
    /\ \A j \in (k + 1)..Len(array) : array[j] = EmptyValue

Min(a, b) == IF a < b THEN a ELSE b

\* C23 as stated: each representation ends with an all-null entry and every
\* value array has the fixed capacity and holds the declared values,
\* followed only by empty entries with at least one at the end.
C23_ArraysHoldDeclaredValues ==
    Derived =>
        \A c \in lastOp.input :
            /\ SentinelTerminated(c.expanded)
            /\ \A i \in 1..Len(c.options) :
                  LET declared == c.options[i].values IN
                  /\ HoldsValues(c.expanded.RETRO_CORE_OPTIONS[i].values,
                                 declared, Len(declared))
                  /\ HoldsValues(
                         c.expanded.RETRO_CORE_OPTION_V2_DEFINITIONS[i].values,
                         declared, Len(declared))

\* C23 as the code has it: the same, with the value array holding the first
\* RETRO_NUM_CORE_OPTION_VALUES_MAX - 1 declared values at most; values
\* declared beyond that are left out.
C23_ArraysHoldValuesUpToCapacity ==
    Derived =>
        \A c \in lastOp.input :
            /\ SentinelTerminated(c.expanded)
            /\ Len(c.expanded.RETRO_CORE_OPTIONS) = Len(c.options) + 1
            /\ Len(c.expanded.RETRO_CORE_VARIABLES) = Len(c.options) + 1
            /\ Len(c.expanded.RETRO_CORE_OPTION_V2_DEFINITIONS) =
                   Len(c.options) + 1
            /\ \A i \in 1..Len(c.options) :
                  LET declared == c.options[i].values
                      k == Min(Len(declared),
                               RETRO_NUM_CORE_OPTION_VALUES_MAX - 1)
                  IN
                  /\ HoldsValues(c.expanded.RETRO_CORE_OPTIONS[i].values,
                                 declared, k)
                  /\ HoldsValues(
                         c.expanded.RETRO_CORE_OPTION_V2_DEFINITIONS[i].values,
                         declared, k)

\* An option that declares more values than the array can hold.
C23_Witness ==
    /\ Derived
    /\ \E c \in lastOp.input :
          \E i \in 1..Len(c.options) :
              /\ Len(c.options[i].values) >= RETRO_NUM_CORE_OPTION_VALUES_MAX
              /\ Len(c.expanded.RETRO_CORE_OPTIONS[i].values) =
                     RETRO_NUM_CORE_OPTION_VALUES_MAX

\* A pointer is null or points to a nul-terminated byte string.
NulTerminated(ptr) == ptr = NullPtr \/ Last(ptr) = NUL

ValuesNulTerminated(values) ==
    \A j \in 1..Len(values) :
        NulTerminated(values[j].value) /\ NulTerminated(values[j].label)

\* C24: every string of the three pre-computed representations is
\* nul-terminated, the legacy variables' "description; value1|value2"
\* string included.
C24_StringsNulTerminated ==
    Derived =>
        \A c \in lastOp.input :
            LET e == c.expanded IN
            /\ \A i \in 1..Len(e.RETRO_CORE_VARIABLES) :
                  /\ NulTerminated(e.RETRO_CORE_VARIABLES[i].key)
                  /\ NulTerminated(e.RETRO_CORE_VARIABLES[i].value)
            /\ \A i \in 1..Len(e.RETRO_CORE_OPTIONS) :
                  LET d == e.RETRO_CORE_OPTIONS[i] IN
                  /\ NulTerminated(d.key) /\ NulTerminated(d.desc)
                  /\ NulTerminated(d.info)
                  /\ NulTerminated(d.default_value)
                  /\ ValuesNulTerminated(d.values)
            /\ \A i \in 1..Len(e.RETRO_CORE_OPTION_V2_DEFINITIONS) :
                  LET d == e.RETRO_CORE_OPTION_V2_DEFINITIONS[i] IN
                  /\ NulTerminated(d.key) /\ NulTerminated(d.desc)
                  /\ NulTerminated(d.info)
                  /\ NulTerminated(d.desc_categorized)
                  /\ NulTerminated(d.info_categorized)
                  /\ NulTerminated(d.category_key)
                  /\ NulTerminated(d.default_value)
                  /\ ValuesNulTerminated(d.values)
            /\ \A i \in 1..Len(e.RETRO_CORE_OPTION_V2_CATEGORIES) :
                  LET g == e.RETRO_CORE_OPTION_V2_CATEGORIES[i] IN
                  /\ NulTerminated(g.key) /\ NulTerminated(g.desc)
                  /\ NulTerminated(g.info)

\* The default of a declared option resolves: it names one of the values.
DefaultResolves(option) ==
    \E j \in 1..Len(option.values) :
        option.default_value = {option.values[j].value}

\* C25: the legacy variable string of an option lists the declared default
\* first; "false", the first declared value, comes first only if the default
\* does not resolve.  For values false, true, unstable with default "true"
\* the host is offered "true".
C25_LegacyDefaultFirst ==
    Derived =>
        \A c \in lastOp.input :
            \A i \in 1..Len(c.options) :
                LET option == c.options[i]
                    first == FirstEntry(
                                 c.expanded.RETRO_CORE_VARIABLES[i].value)
                IN  Len(option.values) >= 1 =>
                        IF DefaultResolves(option)
                        THEN first = option.default_value
                        ELSE first = {option.values[1].value}

----------------------------------------------------------------------------
(* Return values of the load entry points, checked under SpecSpecial *)

LoadEntries == {"retro_load_game", "retro_load_game_special"}

\* C26: retro_load_game and retro_load_game_special return true to the host
\* iff the core's load handler returned success; a handler error is logged
\* and becomes the return value false, with control back at the host.
C26_LoadReturnsHandlerSuccess ==
    (entry \in LoadEntries /\ ret # {}) =>
        /\ phase = "host"
        /\ ret = {TRUE} <=> handlerResult = "Ok"
        /\ handlerResult \notin {"none", "Ok"} =>
              /\ ret = {FALSE}
              /\ callLog[Len(callLog)] = "log_error"

\* retro_load_game returned false for a handler that failed.
C26_Witness ==
    /\ entry = "retro_load_game"
    /\ handlerResult = "Err"
    /\ ret = {FALSE}

----------------------------------------------------------------------------
(* The process statics, lib.rs set_core and retro_get_system_info *)

\* The panic of set_core names the core that is registered.
AlreadyInitialized(registered) ==
    [message |-> "Attempted to set a core after the system was already "
                 \o "initialized",
     core |-> registered]

set_core_replacing(slot, c) ==
    [RETRO_INSTANCE |-> {c}, panic |-> {}]

\* set_core: panics if RETRO_INSTANCE is Some, else replaces it with a new
\* wrapper of the core.
set_core(slot, c) ==
    IF slot # {}
    THEN [RETRO_INSTANCE |-> slot,
          panic |-> {AlreadyInitialized(r) : r \in slot}]
    ELSE [RETRO_INSTANCE |-> {c}, panic |-> {}]

\* The application (a test, say) calls the public set_core itself.
call_set_core(c) ==
    LET r == set_core(statics.RETRO_INSTANCE, c) IN
    /\ phase = "host"
    /\ session.panic = {}
    /\ statics' = [statics EXCEPT !.RETRO_INSTANCE = r.RETRO_INSTANCE]
    /\ session' = [session EXCEPT
                      !.panic = r.panic,
                      !.registration = {[core |-> c,
                                         slot |-> statics.RETRO_INSTANCE]}]
    /\ UNCHANGED <<wrapperVars, frameVars, interfaces, callVars, opVars,
                   ghostVars, audio_thread, load_args, core>>

\* retro_get_system_info: a null info panics; the first call runs
\* __retro_init_core, which is set_core(the build's core), and keeps the
\* core's get_info in SYS_INFO; every call hands SYS_INFO to the host.
retro_get_system_info(infoNull) ==
    LET r == set_core(statics.RETRO_INSTANCE, statics.retro_core)
        init == ~infoNull /\ statics.SYS_INFO = {}
        panic == IF infoNull
                 THEN {[message |-> "Expected retro_system_info, got NULL",
                        core |-> "none"]}
                 ELSE IF init THEN r.panic ELSE {}
    IN
    /\ phase = "host"
    /\ session.panic = {}
    /\ entry' = "retro_get_system_info"
    /\ handlerResult' = "none"
    /\ load_args' = {}
    /\ callLog' = IF init /\ panic = {} THEN <<"get_info">> ELSE <<>>
    /\ statics' = IF init /\ panic = {}
                  THEN [statics EXCEPT
                           !.RETRO_INSTANCE = r.RETRO_INSTANCE,
                           !.SYS_INFO = r.RETRO_INSTANCE]
                  ELSE statics
    /\ ret' = IF panic = {} THEN statics'.SYS_INFO ELSE {}
    /\ session' = [session EXCEPT
                      !.panic = panic,
                      !.registration =
                          IF init
                          THEN {[core |-> statics.retro_core,
                                 slot |-> statics.RETRO_INSTANCE]}
                          ELSE session.registration]
    /\ UNCHANGED <<wrapperVars, frameVars, interfaces, phase, cont,
                   run_delta, opVars, ghostVars, audio_thread, core>>

----------------------------------------------------------------------------
(* Save state size, lib.rs forward! *)

MaxSize == 2
Sizes == 0..MaxSize

forward_nothing(value) == 0

\* forward!: the entry point returns what the handler returned.
forward(value) == value

\* The sizes the host was told by the last two calls, the earlier first.
Reported(sizes, size) ==
    IF Len(sizes) = 2 THEN <<sizes[2], size>> ELSE Append(sizes, size)

\* retro_serialize_size.  size: what the core's get_serialize_size computes
\* this time.
retro_serialize_size(size) ==
    /\ EnterCall("retro_serialize_size")
    /\ callLog' = <<"get_serialize_size">>
    /\ core' = [core EXCEPT !.serialize_size = size]
    /\ ret' = {forward(size)}
    /\ session' = [session EXCEPT
                      !.sizes = Reported(session.sizes, forward(size))]
    /\ UNCHANGED <<wrapperVars, frameVars, interfaces, phase, cont,
                   run_delta, opVars, ghostVars, audio_thread, statics>>

----------------------------------------------------------------------------
(* Audio/video information, lib.rs retro_get_system_av_info *)

WIDTH == 320
HEIGHT == 240
AspectRatios == {"4:3", "16:9"}

\* Core::on_get_av_info of the example core (constant) and of the test core
\* (its get_av_info, with the aspect ratio the core holds at the moment).
\* The test core's sample rate option is left at its initial value.
on_get_av_info(name, fields) ==
    IF name = "ExampleCore"
    THEN [geometry |-> [base_width |-> 800, base_height |-> 600,
                        max_width |-> 800, max_height |-> 600,
                        aspect_ratio |-> "0.0"],
          timing |-> [fps |-> 60, sample_rate |-> "0.0"]]
    ELSE [geometry |-> [base_width |-> WIDTH, base_height |-> HEIGHT,
                        max_width |-> WIDTH, max_height |-> HEIGHT,
                        aspect_ratio |-> fields.aspect],
          timing |-> [fps |-> 60, sample_rate |-> "30000.0"]]

\* TestCore::get_av_info also remembers the aspect ratio it reported.
after_get_av_info(name, fields) ==
    IF name = "TestCore"
    THEN [fields EXCEPT !.last_aspect = fields.aspect]
    ELSE fields

copy_av_info_without_max(av_info) ==
    [geometry |-> [av_info.geometry EXCEPT !.max_width = 0,
                                           !.max_height = 0],
     timing |-> av_info.timing]

\* info.geometry = av_info.geometry; info.timing = av_info.timing;
copy_av_info(av_info) ==
    [geometry |-> av_info.geometry, timing |-> av_info.timing]

\* retro_get_system_av_info: a null info panics, else the core's answer is
\* copied into the host's struct.
retro_get_system_av_info(infoNull) ==
    /\ Enter("retro_get_system_av_info")
    /\ IF infoNull
       THEN /\ callLog' = <<>>
            /\ session' =
                   [session EXCEPT
                       !.panic =
                           {[message |->
                                 "Expected retro_system_av_info, got NULL",
                             core |-> "none"]}]
            /\ UNCHANGED core
       ELSE \E name \in statics.RETRO_INSTANCE :
                /\ callLog' = <<"on_get_av_info">>
                /\ core' = after_get_av_info(name, core)
                /\ session' =
                       [session EXCEPT
                           !.previous_av_info = session.av_info,
                           !.av_info = {copy_av_info(
                                            on_get_av_info(name, core))}]
    /\ UNCHANGED <<wrapperVars, frameVars, interfaces, phase, cont,
                   run_delta, opVars, ghostVars, audio_thread, statics>>

\* TestCore::on_options_changed reads the test_aspect variable.  value: the
\* string the host left in the retro_variable, "NULL" for none.
test_core_on_options_changed(hostOk, value) ==
    LET r == get_mut(environment_callback, hostOk) IN
    /\ phase = "on_options_changed"
    /\ statics.RETRO_INSTANCE = {"TestCore"}
    /\ core' = [core EXCEPT
                   !.aspect = IF r = "Ok" /\ value \in AspectRatios
                              THEN value ELSE core.aspect]
    /\ lastOp' = [NoOp EXCEPT
                     !.op = "get_variable", !.result = r,
                     !.calls = EnvCalls(environment_callback,
                                        "env:GET_VARIABLE"),
                     !.input = {[key |-> "test_aspect", value |-> value]}]
    /\ UNCHANGED <<wrapperVars, frameVars, interfaces, callVars, prevOp,
                   ghostVars, audio_thread, load_args, statics, session>>

\* environment.rs set_game_geometry.
set_game_geometry(callback, hostOk) == set(callback, hostOk)

\* TestCore::on_run when the aspect ratio changed: it sends the geometry of
\* get_av_info to the host and takes the old ratio back if that fails.
test_core_on_run_geometry(hostOk) ==
    LET tmp == core.last_aspect
        geometry == on_get_av_info("TestCore", core).geometry
        r == set_game_geometry(environment_callback, hostOk)
    IN
    /\ phase = "on_run"
    /\ statics.RETRO_INSTANCE = {"TestCore"}
    /\ core.last_aspect # core.aspect
    /\ core' = [after_get_av_info("TestCore", core) EXCEPT
                   !.aspect = IF r = "Ok" THEN core.aspect ELSE tmp]
    /\ lastOp' = [NoOp EXCEPT
                     !.op = "set_game_geometry", !.result = r,
                     !.calls = EnvCalls(environment_callback,
                                        "env:SET_GEOMETRY"),
                     !.input = {geometry}]
    /\ session' = [session EXCEPT
                      !.geometry = IF r = "Ok" THEN {geometry}
                                   ELSE session.geometry]
    /\ UNCHANGED <<wrapperVars, frameVars, interfaces, callVars, prevOp,
                   ghostVars, audio_thread, load_args, statics>>

----------------------------------------------------------------------------
(* A process from its first call on *)

NextProcess ==
    \/ \E c \in Cores : call_set_core(c)
    \/ \E infoNull \in BOOLEAN : retro_get_system_info(infoNull)
    \/ \E environment \in BOOLEAN :
           retro_set_environment(environment, TRUE, {}, TRUE)
    \/ \E size \in Sizes : retro_serialize_size(size)

SpecProcess == InitUnregistered /\ [][NextProcess]_vars

----------------------------------------------------------------------------
(* The av-info of either core over frames and option changes *)

AcceptingHost == [ok |-> TRUE, data |-> TRUE]

NextAvInfo ==
    \/ retro_get_system_info(FALSE)
    \/ \E environment \in BOOLEAN :
           retro_set_environment(environment, TRUE, {}, TRUE)
    \/ \E infoNull \in BOOLEAN : retro_get_system_av_info(infoNull)
    \/ retro_run(AcceptingHost)
    \/ options_changed_returns
    \/ handler_returns
    \/ \E hostOk \in BOOLEAN, value \in AspectRatios \cup {"NULL"} :
           test_core_on_options_changed(hostOk, value)
    \/ \E hostOk \in BOOLEAN : test_core_on_run_geometry(hostOk)

SpecAvInfo == InitUnregistered /\ [][NextAvInfo]_vars

----------------------------------------------------------------------------
(* Claims about the save state size *)

\* C27 as stated: no retro_serialize_size call reports a size greater than
\* the call before it reported, whatever the core computes.
C27_SizesNeverGrow ==
    Len(session.sizes) = 2 => session.sizes[2] <= session.sizes[1]

\* C27: retro_serialize_size reports to the host exactly the size the core's
\* get_serialize_size computed, also when it is greater than the size the
\* call before reported; keeping sizes from growing is left to the core.
C27_SizeIsTheCoresAnswer ==
    entry = "retro_serialize_size"
        => /\ ret = {core.serialize_size}
           /\ Last(session.sizes) = core.serialize_size
           /\ callLog = <<"get_serialize_size">>

\* A size greater than the one before reached the host.
C27_Witness ==
    /\ entry = "retro_serialize_size"
    /\ Len(session.sizes) = 2
    /\ session.sizes[2] > session.sizes[1]
    /\ ret = {session.sizes[2]}

----------------------------------------------------------------------------
(* Claims about the current-core slot *)

\* The registrations made while a core was registered already.
ReRegistrations == {a \in session.registration : a.slot # {}}

\* C28 as stated: a registration attempted while a core is registered
\* leaves that core registered and is rejected without a panic.
C28_ReRegistrationIsAnError ==
    \A a \in ReRegistrations :
        /\ statics.RETRO_INSTANCE = a.slot
        /\ session.panic = {}

\* C28: the current-core slot is set once and never changes afterwards; a
\* registration attempted while a core is registered leaves that core
\* registered and panics with a message that names the registered core.
C28_ReRegistrationPanics ==
    /\ [](\A a \in ReRegistrations :
            /\ statics.RETRO_INSTANCE = a.slot
            /\ session.panic = {AlreadyInitialized(r) : r \in a.slot})
    /\ [][statics.RETRO_INSTANCE # {}
              => statics'.RETRO_INSTANCE = statics.RETRO_INSTANCE]_vars

\* Another core was handed to set_core while a core was registered.
C28_Witness ==
    \E a \in ReRegistrations :
        /\ a.core \notin a.slot
        /\ statics.RETRO_INSTANCE = a.slot
        /\ session.panic # {}

----------------------------------------------------------------------------
(* Claims about the av-info *)

\* The width and height each core declares, as base and as max.
DeclaredSize(name) ==
    IF name = "ExampleCore" THEN [width |-> 800, height |-> 600]
    ELSE [width |-> WIDTH, height |-> HEIGHT]

\* Two geometries that differ in the aspect ratio at most.
SameButAspect(g, h) ==
    /\ g.base_width = h.base_width
    /\ g.base_height = h.base_height
    /\ g.max_width = h.max_width
    /\ g.max_height = h.max_height

\* C29: retro_get_system_av_info reports exactly the base and max size and
\* the fps the registered core declares (800, 600, 800, 600 and 60 for the
\* example core); a geometry the core sent with set_game_geometry and the
\* av-info of the query before differ from the av-info reported in the
\* aspect ratio at most, the max bounds and the timing are unchanged.
C29_AvInfoReportedAsDeclared ==
    \A name \in statics.RETRO_INSTANCE, info \in session.av_info :
        /\ info.geometry.base_width = DeclaredSize(name).width
        /\ info.geometry.base_height = DeclaredSize(name).height
        /\ info.geometry.max_width = DeclaredSize(name).width
        /\ info.geometry.max_height = DeclaredSize(name).height
        /\ info.timing.fps = 60
        /\ \A geometry \in session.geometry :
               SameButAspect(geometry, info.geometry)
        /\ \A previous \in session.previous_av_info :
               /\ SameButAspect(previous.geometry, info.geometry)
               /\ previous.timing = info.timing

\* The core changed its aspect ratio with set_game_geometry between two
\* queries, and the later query reports the geometry it sent.
C29_Witness ==
    /\ entry = "retro_get_system_av_info"
    /\ \E info \in session.av_info, previous \in session.previous_av_info :
           /\ info.geometry \in session.geometry
           /\ info.geometry.aspect_ratio # previous.geometry.aspect_ratio
           /\ previous.geometry.aspect_ratio \in AspectRatios

----------------------------------------------------------------------------
(* Claims about a failed enable, checked under SpecRegistry *)

RegistryEnableOps == {"enable_rumble_interface", "enable_perf_interface"}

\* C30: when enable_rumble_interface or enable_perf_interface fails, its
\* slot is empty afterwards, also when the call took the interface of an
\* earlier successful enable out of it; a dependent call that follows fails
\* with InterfaceNotFound and calls no host function.
C30_FailedEnableEmptiesSlot ==
    /\ \A op \in RegistryEnableOps :
          (lastOp.op = op /\ lastOp.result # "Ok") =>
              SlotOf(op) = {} /\ LatestOf(op) = 0
    /\ (lastOp.op = "set_rumble_state" /\ latest.rumble = 0) =>
          lastOp.result = "InterfaceNotFound" /\ lastOp.calls = <<>>
    /\ (lastOp.op = "perf_get_time_usec" /\ latest.perf = 0) =>
          lastOp.result = "InterfaceNotFound" /\ lastOp.calls = <<>>

\* The host rejected GET_RUMBLE_INTERFACE after it had handed out an
\* interface with every function pointer: the slot is empty.
C30_Witness ==
    /\ lastOp.op = "enable_rumble_interface"
    /\ lastOp.result = "Failure"
    /\ \E i \in lastOp.taken : i.fns = RumbleFns
    /\ interfaces.rumble_interface = {}

----------------------------------------------------------------------------
(* Host functions that call back into the dispatcher, contexts/mod.rs and *)
(* lib.rs                                                                  *)

MaxDepth == 1
ServiceFns == {"start", "stop"}
HostFunctions == {"camera.start", "location.start"}
CallbackPhases == {"on_camera_initialized",
                   "on_location_lifetime_status_initialized"}

Push(frame) == [session EXCEPT !.stack = Append(@, frame)]
Pop == [session EXCEPT !.stack = SubSeq(@, 1, Len(@) - 1)]
Top == session.stack[Len(session.stack)]

enable_camera_interface(hostOk) ==
    /\ enable_interface("enable_camera_interface",
                        "env:GET_CAMERA_INTERFACE", "camera_interface",
                        ServiceFns, hostOk)
    /\ UNCHANGED <<latest, hw_torn_down>>

enable_location_interface(hostOk) ==
    /\ enable_interface("enable_location_interface",
                        "env:GET_LOCATION_INTERFACE", "location_interface",
                        ServiceFns, hostOk)
    /\ UNCHANGED <<latest, hw_torn_down>>

\* let interfaces = self.interfaces.read().unwrap(): the guard lives to the
\* end of the operation, the call of the host function included.
start_guard(mode) == mode

\* camera_start / location_service_start: take the read lock, look the
\* start function up and call it; the thread is inside the host function
\* until that returns.
service_start(op, slot, fn, phases) ==
    LET f == get_interface_function(slot, "start") IN
    /\ phase \in phases
    /\ ~Conflicts(interface_lock(op))
    /\ Len(session.stack) < 2 * MaxDepth
    /\ lastOp' = [NoOp EXCEPT
                     !.op = op,
                     !.result = IF f = "Ok" THEN "pending" ELSE f,
                     !.calls = IF f = "Ok" THEN <<"start">> ELSE <<>>,
                     !.lock = interface_lock(op)]
    /\ prevOp' = IF lastOp.op \in EnableOps THEN lastOp.op ELSE "none"
    /\ IF f = "Ok"
       THEN /\ phase' = fn
            /\ session' = Push([return |-> phase, op |-> op,
                                lock |-> start_guard(interface_lock(op))])
       ELSE UNCHANGED <<phase, session>>
    /\ UNCHANGED <<wrapperVars, frameVars, interfaces, cont, entry, callLog,
                   run_delta, handlerResult, ret, ghostVars, audio_thread,
                   load_args, statics, core>>

camera_start ==
    service_start("camera_start", interfaces.camera_interface,
                  "camera.start", {"on_run"})

location_service_start ==
    service_start("location_service_start", interfaces.location_interface,
                  "location.start", GenericPhases)

\* The host's start function returns; the operation drops its guard and
\* returns.  started: what the function returned.
host_function_returns(started) ==
    /\ phase \in HostFunctions
    /\ phase' = Top.return
    /\ session' = Pop
    /\ lastOp' = [NoOp EXCEPT
                     !.op = Top.op,
                     !.result = IF Top.op = "location_service_start"
                                   /\ ~started
                                THEN "FailedToStart" ELSE "Ok",
                     !.calls = <<"start">>,
                     !.lock = interface_lock(Top.op)]
    /\ UNCHANGED <<wrapperVars, frameVars, interfaces, cont, entry, callLog,
                   run_delta, handlerResult, ret, prevOp, ghostVars,
                   audio_thread, load_args, statics, core>>

\* A trampoline the enable operation handed to the host: the host calls it
\* from its main loop or from inside its start function.
service_callback(slot, handler) ==
    /\ phase \in {"host"} \cup HostFunctions
    /\ statics.RETRO_INSTANCE # {}
    /\ session.panic = {}
    /\ slot # {}
    /\ phase' = handler
    /\ session' = Push([return |-> phase, op |-> handler, lock |-> "none"])
    /\ lastOp' = NoOp
    /\ UNCHANGED <<wrapperVars, frameVars, interfaces, cont, entry, callLog,
                   run_delta, handlerResult, ret, prevOp, ghostVars,
                   audio_thread, load_args, statics, core>>

retro_camera_initialized_callback ==
    service_callback(interfaces.camera_interface, "on_camera_initialized")

retro_location_lifetime_status_initialized_callback ==
    service_callback(interfaces.location_interface,
                     "on_location_lifetime_status_initialized")

\* The handler of a trampoline returns to the host.
service_callback_returns ==
    /\ phase \in CallbackPhases
    /\ phase' = Top.return
    /\ session' = Pop
    /\ lastOp' = NoOp
    /\ UNCHANGED <<wrapperVars, frameVars, interfaces, cont, entry, callLog,
                   run_delta, handlerResult, ret, prevOp, ghostVars,
                   audio_thread, load_args, statics, core>>

\* A registry operation whose lock conflicts with a guard a frame of the
\* same thread holds: std's RwLock blocks the thread for ever or panics.
registry_lock_conflict(op, outcome) ==
    /\ phase \in GenericPhases
    /\ Conflicts(interface_lock(op))
    /\ phase' = "blocked"
    /\ session' = [session EXCEPT
                      !.waiting = {[op |-> op, mode |-> interface_lock(op),
                                    outcome |-> outcome]}]
    /\ lastOp' = [NoOp EXCEPT !.op = op, !.result = outcome,
                              !.lock = interface_lock(op)]
    /\ UNCHANGED <<wrapperVars, frameVars, interfaces, cont, entry, callLog,
                   run_delta, handlerResult, ret, prevOp, ghostVars,
                   audio_thread, load_args, statics, core>>

NextReentry ==
    \/ retro_set_environment(TRUE, TRUE, {}, TRUE)
    \/ retro_load_game
    \/ options_changed_returns
    \/ load_game_returns("Ok")
    \/ handler_returns
    \/ retro_run(AcceptingHost)
    \/ enable_perf_interface(TRUE)
    \/ \E hostOk \in BOOLEAN : enable_camera_interface(hostOk)
    \/ \E hostOk \in BOOLEAN : enable_location_interface(hostOk)
    \/ camera_start
    \/ location_service_start
    \/ \E started \in BOOLEAN : host_function_returns(started)
    \/ retro_camera_initialized_callback
    \/ retro_location_lifetime_status_initialized_callback
    \/ service_callback_returns
    \/ \E name \in PerfCounterNames : start_perf_counter(name, TRUE, TRUE)
    \/ \E name \in PerfCounterNames : stop_perf_counter(name)
    \/ perf_get_time_usec
    \/ \E op \in {"start_perf_counter", "stop_perf_counter"} :
           \E outcome \in {"blocked", "panic"} :
               registry_lock_conflict(op, outcome)

SpecReentry == Init /\ [][NextReentry]_vars

----------------------------------------------------------------------------
(* Claims about the negotiated bitmask flag, checked under SpecRun *)

\* C31: supports_bitmasks is true only if the host accepted
\* GET_INPUT_BITMASKS in some retro_set_environment; if the host rejected
\* every attempt, get_joypad_bitmask never makes the single mask query.
C31_BitmaskFlagOnlyIfAccepted ==
    /\ supports_bitmasks => bitmask_accepted
    /\ (lastOp.op = "get_joypad_bitmask" /\ ~bitmask_accepted) =>
          \A i \in 1..Len(lastOp.calls) :
              lastOp.calls[i] # RETRO_DEVICE_ID_JOYPAD_MASK

----------------------------------------------------------------------------
(* Claims about re-entrant locking, checked under SpecReentry *)

\* C32: no execution path tries to take the registry lock in a mode that
\* conflicts with a guard the same thread holds, also when the host calls a
\* trampoline from inside a function the binding called under the lock and
\* the core performs a registry operation in it: no call blocks for ever.
C32_NoConflictingAcquire ==
    /\ session.waiting = {}
    /\ phase # "blocked"

----------------------------------------------------------------------------
(* The performance counters over enables, starts and stops *)

NextCounters ==
    \/ retro_set_environment(TRUE, TRUE, {}, TRUE)
    \/ retro_load_game
    \/ options_changed_returns
    \/ load_game_returns("Ok")
    \/ handler_returns
    \/ \E hostOk \in BOOLEAN : enable_perf_interface(hostOk)
    \/ \E name \in PerfCounterNames : \E nameOk, hostRegisters \in BOOLEAN :
           start_perf_counter(name, nameOk, hostRegisters)
    \/ \E name \in PerfCounterNames : stop_perf_counter(name)

SpecCounters == Init /\ [][NextCounters]_vars

----------------------------------------------------------------------------
(* Claims about the performance counters, checked under SpecCounters *)

\* A step in which the running handler called the operation for the name.
CounterStep(op, name) ==
    /\ phase' = phase
    /\ lastOp'.op = op
    /\ lastOp'.input = {name}

\* The counter of the name is marked registered.
Registered(name) == \E c \in CounterOf(name) : c.registered

\* C33: start_perf_counter calls the host's perf_register only for a
\* counter that is not marked registered, and a successful call calls
\* perf_start exactly once, after the registration if there is one.
C33_RegisterOnlyUnregistered ==
    [][\A name \in PerfCounterNames :
          CounterStep("start_perf_counter", name) =>
              /\ Registered(name) =>
                     lastOp'.calls \in {<<>>, <<"perf_start">>}
              /\ lastOp'.result = "Ok" =>
                     lastOp'.calls \in {<<"perf_start">>,
                                        <<"perf_register", "perf_start">>}
              /\ lastOp'.result # "Ok" =>
                     lastOp'.calls \in {<<>>, <<"perf_register">>}]_vars

\* A counter the host marked registered was started again: perf_start only.
C33_Witness ==
    /\ lastOp.op = "start_perf_counter"
    /\ lastOp.result = "Ok"
    /\ lastOp.calls = <<"perf_start">>
    /\ \A name \in lastOp.input : Registered(name)

\* What C34 says of a stop_perf_counter call: perf_stop is called only for a
\* counter that was started and is marked registered; a name never started
\* gives UnknownPerformanceCounter and a counter not marked registered
\* UnregisteredPerformanceCounter, without a call to the host.
StopErrors(name) ==
    /\ lastOp.calls \in {<<>>, <<"perf_stop">>}
    /\ lastOp.calls = <<"perf_stop">> =>
          CounterOf(name) # {} /\ Registered(name)
    /\ CounterOf(name) = {} =>
          lastOp.result = "UnknownPerformanceCounter" /\ lastOp.calls = <<>>
    /\ (CounterOf(name) # {} /\ ~Registered(name)) =>
          /\ lastOp.result = "UnregisteredPerformanceCounter"
          /\ lastOp.calls = <<>>

\* C34 as stated: every stop_perf_counter call behaves so.
C34_StopErrors ==
    lastOp.op = "stop_perf_counter" =>
        \A name \in lastOp.input : StopErrors(name)

\* C34: while the performance interface is enabled, stop_perf_counter calls
\* perf_stop only for a counter that was started and is marked registered,
\* fails with UnknownPerformanceCounter for a name never started and with
\* UnregisteredPerformanceCounter for a counter not marked registered;
\* while the interface slot is empty it fails with InterfaceNotFound for
\* every name.  No failing call reaches the host.
C34_StopErrorsWhenEnabled ==
    lastOp.op = "stop_perf_counter" =>
        \A name \in lastOp.input :
            IF interfaces.perf_interface = {}
            THEN lastOp.result = "InterfaceNotFound" /\ lastOp.calls = <<>>
            ELSE StopErrors(name)

\* A counter that was started but that the host did not mark registered.
C34_Witness ==
    /\ lastOp.op = "stop_perf_counter"
    /\ lastOp.result = "UnregisteredPerformanceCounter"
    /\ \A name \in lastOp.input :
           CounterOf(name) # {} /\ ~Registered(name)
    /\ lastOp.calls = <<>>

\* C35: enable_perf_interface leaves no tracked counter behind, whether it
\* succeeds or fails; a stop_perf_counter that follows it does not reach the
\* host's perf_stop, whatever name it is given.
C35_EnableDiscardsCounters ==
    /\ lastOp.op = "enable_perf_interface" => interfaces.perf_counters = {}
    /\ (lastOp.op = "stop_perf_counter"
            /\ prevOp = "enable_perf_interface") =>
          /\ lastOp.calls = <<>>
          /\ lastOp.result \in {"InterfaceNotFound",
                                 "UnknownPerformanceCounter"}

\* The host rejected GET_PERF_INTERFACE while a registered counter was
\* tracked: the counter is gone.
C35_Witness ==
    /\ lastOp.op = "enable_perf_interface"
    /\ lastOp.result # "Ok"
    /\ \E c \in lastOp.cleared : c.registered
    /\ interfaces.perf_counters = {}

----------------------------------------------------------------------------
(* Claims about the VFS interface, checked under SpecVfs *)

\* C36: enable_vfs_interface(min_version) returns Ok(v) only if the
\* interface in the registry supports version v and v >= min_version; if
\* the host does not supply min_version at least, the call fails, also when
\* an earlier call recorded an interface of a lower version.
C36_EnableVfsHonoursMinVersion ==
    lastOp.op = "enable_vfs_interface" =>
        \A i \in lastOp.input :
            /\ lastOp.result = "Ok" =>
                   /\ interfaces.vfs_interface_info.interface # {}
                   /\ interfaces.vfs_interface_info.supported_version
                          = lastOp.value
                   /\ lastOp.value >= i.min_version

\* C37 as stated: any VFS operation, the version-gated directory operations
\* included, called while the VFS slot of the registry is empty fails with
\* InterfaceNotFound and calls nothing in the host interface.
C37_EmptySlotIsInterfaceNotFound ==
    (lastOp.op \in VfsOps /\ interfaces.vfs_interface_info.interface = {}) =>
        /\ lastOp.result = "InterfaceNotFound"
        /\ lastOp.calls = <<>>

\* C37 as the code has it: a VFS operation called while the VFS slot is
\* empty calls nothing in the host interface; an operation without a version
\* requirement fails with InterfaceNotFound, and a version-gated one fails
\* with VersionMismatch, as the version recorded beside an empty slot is 0
\* and the version is compared before the slot is looked at.
C37_EmptySlotFailsWithoutHostCall ==
    (lastOp.op \in VfsOps /\ interfaces.vfs_interface_info.interface = {}) =>
        /\ lastOp.calls = <<>>
        /\ interfaces.vfs_interface_info.supported_version = 0
        /\ lastOp.result = IF VfsRequiredVersion(lastOp.op) = {}
                           THEN "InterfaceNotFound"
                           ELSE "VersionMismatch"

\* vfs_opendir with no VFS interface enabled: the version gate answers.
C37_Witness ==
    /\ lastOp.op = "vfs_opendir"
    /\ interfaces.vfs_interface_info.interface = {}
    /\ lastOp.result = "VersionMismatch"
    /\ lastOp.calls = <<>>

----------------------------------------------------------------------------
(* Claims about the frames of the run loop, checked under SpecFrames *)

DrawOps == {"draw_frame", "draw_framebuffer", "draw_hardware_frame"}

\* C38: whenever dupe_frame invokes the video refresh callback it passes a
\* null data pointer and the width, height and pitch of the most recent draw
\* call that reached the callback; the had-frame flag and the recorded
\* dimensions are those of that draw call at all times, so a draw call made
\* while no callback is registered changes neither.
C38_DupeRepeatsLastDeliveredFrame ==
    /\ had_frame = (session.delivered # {})
    /\ \A d \in session.delivered :
           /\ last_width = d.width
           /\ last_height = d.height
           /\ last_pitch = d.pitch
    /\ (lastOp.op = "dupe_frame" /\ lastOp.calls # <<>>) =>
          \E d \in session.delivered :
              lastOp.calls = <<VideoRefresh("null", d.width, d.height,
                                            d.pitch)>>
    /\ (lastOp.op \in DrawOps /\ lastOp.calls = <<>>) =>
          ~video_refresh_callback

\* dupe_frame repeats a delivered frame whose width, height and pitch are not
\* all the same.
C38_Witness ==
    /\ lastOp.op = "dupe_frame"
    /\ lastOp.calls = <<VideoRefresh("null", 1, 2, 1)>>
    /\ session.delivered = {[width |-> 1, height |-> 2, pitch |-> 1]}

----------------------------------------------------------------------------
(* Claims about the software framebuffer, checked under SpecFramebuffer *)

\* The framebuffers the last call returned from the fallback arm.
FallbackReturned ==
    IF lastOp.op = "get_current_framebuffer_or_fallback"
           /\ lastOp.value.source = "fallback"
    THEN {lastOp.value}
    ELSE {}

\* The scratch buffer holds the returned framebuffer and never shrinks.
ScratchBufferCoversAndGrows ==
    /\ [](\A fb \in FallbackReturned :
              statics.FALLBACK_FRAMEBUFFER >= fb.data_len)
    /\ [][statics'.FALLBACK_FRAMEBUFFER >= statics.FALLBACK_FRAMEBUFFER]_vars

\* C39: on the fallback path of get_current_framebuffer_or_fallback(width,
\* height, ..) the returned framebuffer has pitch = width x bytes per pixel
\* and data_len = height x pitch, the length relation of a host-supplied
\* framebuffer, and the scratch buffer is at least data_len bytes long.
C39_FallbackLengthIsHeightTimesPitch ==
    \A fb \in FallbackReturned :
        /\ fb.pitch = fb.width * bit_per_pixel(fb.format)
        /\ fb.data_len = fb.height * fb.pitch
        /\ statics.FALLBACK_FRAMEBUFFER >= fb.data_len

----------------------------------------------------------------------------
(* Claims about the pointers the host passes, checked under SpecPointers *)

PointerEntries == {"retro_serialize", "retro_unserialize",
                   "retro_load_game_special", "retro_cheat_set"}
PointerHandlers == {"on_serialize", "on_unserialize", "on_options_changed",
                    "on_load_game_special", "on_cheat_set"}

\* The last call from the host was one of the four and its pointer was null.
NullPointerCall(e, args) ==
    e \in PointerEntries /\ \E a \in args : a.null

\* C40: a null data, info or code pointer passed to retro_serialize,
\* retro_unserialize, retro_load_game_special or retro_cheat_set is rejected
\* before the core's handler runs: the call returns to the host at once, the
\* boolean entry points with false and retro_cheat_set with nothing, no
\* handler is invoked, and the call changes nothing in the wrapper, the
\* registry or the core.
C40_NullPointerRejected ==
    /\ [](NullPointerCall(entry, load_args) =>
            /\ phase = "host"
            /\ ret = IF entry = "retro_cheat_set" THEN {} ELSE {FALSE}
            /\ \A i \in 1..Len(callLog) : callLog[i] \notin PointerHandlers)
    /\ [][(phase = "host" /\ NullPointerCall(entry', load_args')) =>
              UNCHANGED <<wrapperVars, frameVars, interfaces,
                          processVars>>]_vars

\* retro_cheat_set was called with a null code and has returned.
C40_Witness ==
    /\ NullPointerCall(entry, load_args)
    /\ entry = "retro_cheat_set"
    /\ phase = "host"
    /\ callLog = <<"log_warn">>

====
